---- MODULE Spec2Model ----
(***************************************************************************)
(* Gym Tracker: the workout session store (stores/workoutStore.ts), the    *)
(* remote tables it writes to, its local-storage persistence, and the      *)
(* server-side statistics function get_exercise_progress_stats.            *)
(*                                                                         *)
(* Every asynchronous store action is split at its await points: the call  *)
(* step issues the request, a server step applies it and decides the       *)
(* outcome, and a resume step runs the continuation.  Spec interleaves     *)
(* calls freely (up to MaxInFlight at once); SeqSpec runs one user         *)
(* operation at a time; StatsSpec applies the statistics function to       *)
(* bounded tables of observations.                                         *)
(***************************************************************************)
EXTENDS Integers, Sequences, FiniteSets, TLC

\* ---------------------------------------------------------------- bounds
MaxCalls == 4
MaxInFlight == 2
MaxObs == 3
MaxPoints == 3
MaxEdits == 3
MaxRows == 5
MaxCharts == 3

\* ---------------------------------------------------------------- inputs
Days == {"d1", "d2"}
Exercises == {"e1"}
SetIndexes == {0, 1}
Weights == {0, 60}
Reps == {"8"}
StatExercises == {"e1", "e2"}
StatWeights == {0, 60, 65, 70}
StatTimes == {1, 2, 3}
Outcomes == {"ok", "error", "throw"}

\* JavaScript null, and a string held in a nullable field
Null == [type |-> "null"]
Str(s) == [type |-> "string", str |-> s]
Idle == [op |-> "idle"]

VARIABLES
  workout_sessions,   \* remote table: sequence of session rows
  session_exercises,  \* remote table: sequence of inserted rows
  progress_history,   \* remote table: sequence of weight observations
  profiles,           \* remote table: one row per user who has a profile
  training_days,      \* remote table: sequence of training-day rows
  exercises,          \* remote table: sequence of exercise rows
  generated,          \* number of ids gen_random_uuid() has handed out
  currentSession,     \* store: WorkoutSession | null
  sessionExercises,   \* store: Map<string, SessionExercise>
  isLoading,          \* store
  error,              \* store: string | null
  storage,            \* localStorage item 'workout-session'
  inflight,           \* suspended calls, one per slot
  issued,             \* number of remote calls issued so far
  stats,              \* result of the last statistics call
  trend,              \* progress chart: the weights plotted and their trend line
  weightInput,        \* WeightInput component of one set, and its completed mark
  report,             \* ReportGenerator component
  dashboard,          \* DashboardPage component
  response,           \* what the progress-history endpoint answered
  pdf,                \* a PDFReportGenerator and the report it is building
  tabs,               \* browser tabs signing in to the dashboard
  last                \* the step just taken

vars == <<workout_sessions, session_exercises, progress_history,
          profiles, training_days, exercises, generated,
          currentSession, sessionExercises, isLoading, error, storage,
          inflight, issued, stats, trend, weightInput, report,
          dashboard, response, pdf, tabs, last>>

remote == <<workout_sessions, session_exercises, progress_history>>
store == <<currentSession, sessionExercises, isLoading, error>>
\* the tables the dashboard manages, and the id generator of the backend
catalog == <<profiles, training_days, exercises, generated>>
\* the state of the pages and components outside the session store
pages == <<trend, weightInput, report, dashboard, response, pdf, tabs>>

\* ------------------------------------------------------- JavaScript Map
\* A Map keeps its keys in insertion order.
EmptyMap == [keys |-> <<>>, val |-> [k \in {} |-> Null]]

MapHas(m, k) == k \in DOMAIN m.val

MapSet(m, k, v) ==
  [keys |-> IF MapHas(m, k) THEN m.keys ELSE Append(m.keys, k),
   val |-> [x \in (DOMAIN m.val) \cup {k} |-> IF x = k THEN v ELSE m.val[x]]]

\* Array.from(map.entries()): the [key, value] pairs in insertion order
MapEntries(m) == [i \in 1..Len(m.keys) |-> <<m.keys[i], m.val[m.keys[i]]>>]

\* Array.from(map.values())
MapValues(m) == [i \in 1..Len(m.keys) |-> m.val[m.keys[i]]]

\* new Map(entries)
RECURSIVE MapFromEntries(_)
MapFromEntries(arr) ==
  IF Len(arr) = 0 THEN EmptyMap
  ELSE MapSet(MapFromEntries(SubSeq(arr, 1, Len(arr) - 1)),
              arr[Len(arr)][1], arr[Len(arr)][2])

\* `${exerciseId}-${setIndex}`
Key(exerciseId, setIndex) == exerciseId \o "-" \o ToString(setIndex)

\* { ...existing, ...fields }: object spread, later fields win
Spread(existing, fields) ==
  [f \in (DOMAIN existing) \cup (DOMAIN fields) |->
     IF f \in DOMAIN fields THEN fields[f] ELSE existing[f]]

\* the object {} that spreading undefined contributes
EmptyObject == [f \in {} |-> Null]

\* ------------------------------------------------------- persistence
\* partialize: the part of the state written to local storage
Partialize(cs, se) == [currentSession |-> cs, sessionExercises |-> MapEntries(se)]

\* the item written by the persist middleware after every set()
Stored(cs, se) == [state |-> Partialize(cs, se), version |-> 0]

\* onRehydrateStorage: the stored array becomes a Map again
RehydrateEmpty(item) ==
  [currentSession |-> item.state.currentSession,
   sessionExercises |-> MapFromEntries(<<>>)]
Rehydrate(item) ==
  [currentSession |-> item.state.currentSession,
   sessionExercises |-> MapFromEntries(item.state.sessionExercises)]


\* ------------------------------------------------------- suspended calls
Slots == 1..MaxInFlight

Busy(s) == inflight[s].op # "idle"

NoneInFlight == \A s \in Slots : ~Busy(s)

HasFreeSlot == \E s \in Slots : ~Busy(s)

FreeSlot == CHOOSE s \in Slots : ~Busy(s) /\ \A t \in Slots : t < s => Busy(t)

\* completeWorkoutSession holds the Map object it read at its start
\* (const { currentSession, sessionExercises } = get()) until it builds the
\* rows to save.  `aliased` says that object is still the store's Map;
\* `shared` names the keys whose entry object is also the store's entry.
Capturing(c) == c.op = "completeWorkoutSession" /\ c.phase \in {"sent", "replied"}

\* sessionExercises.set(key, v) on the store's Map, then
\* set({ sessionExercises: new Map(sessionExercises) })
AfterMapSet(c, key, v) ==
  IF ~Capturing(c) THEN c
  ELSE IF c.aliased
    THEN [c EXCEPT !.map = MapSet(c.map, key, v),
                   !.shared = (DOMAIN c.map.val) \cup {key},
                   !.aliased = FALSE]
    ELSE [c EXCEPT !.shared = c.shared \ {key}]

\* existing.reps_completed = reps on the store's entry object, then
\* set({ sessionExercises: new Map(sessionExercises) })
AfterEntryMutation(c, key, v) ==
  IF ~Capturing(c) THEN c
  ELSE IF key \in c.shared
    THEN [c EXCEPT !.map = MapSet(c.map, key, v), !.aliased = FALSE]
    ELSE [c EXCEPT !.aliased = FALSE]

\* set({ sessionExercises: new Map() })
AfterMapCleared(c) ==
  IF ~Capturing(c) THEN c
  ELSE [c EXCEPT !.shared = {}, !.aliased = FALSE]

Message(outcome) == Str("remote call failed")

\* ------------------------------------------------------- initial state
\* the pages as they are before anything is shown on them
PagesInit ==
  /\ trend = Null
  /\ weightInput = Null
  /\ report = Null
  /\ dashboard = Null
  /\ response = Null
  /\ pdf = Null
  /\ tabs = Null

\* an empty backend and the store as create() builds it
StoreInit ==
  /\ workout_sessions = <<>>
  /\ session_exercises = <<>>
  /\ progress_history = <<>>
  /\ profiles = <<>>
  /\ training_days = <<>>
  /\ exercises = <<>>
  /\ generated = 0
  /\ currentSession = Null
  /\ sessionExercises = EmptyMap
  /\ isLoading = FALSE
  /\ error = Null
  /\ storage = Null
  /\ inflight = [s \in Slots |-> Idle]
  /\ issued = 0
  /\ stats = Null
  /\ last = [op |-> "init"]

Init == StoreInit /\ PagesInit

\* ------------------------------------------------------- startWorkoutSession
startWorkoutSession(dayId) ==
  /\ HasFreeSlot
  /\ issued < MaxCalls
  /\ isLoading' = TRUE
  /\ error' = Null
  /\ inflight' = [inflight EXCEPT ![FreeSlot] =
       [op |-> "startWorkoutSession", dayId |-> dayId, phase |-> "sent",
        req |-> [verb |-> "insert", table |-> "workout_sessions",
                 rows |-> <<[day_id |-> dayId]>>],
        res |-> Null]]
  /\ issued' = issued + 1
  /\ storage' = Stored(currentSession, sessionExercises)
  /\ last' = [op |-> "startWorkoutSession", slot |-> FreeSlot]
  /\ UNCHANGED <<remote, currentSession, sessionExercises, stats, catalog, pages>>

\* the backend serves .from('workout_sessions').insert(...).select().single()
insert_workout_sessions(s) ==
  /\ inflight[s].op = "startWorkoutSession"
  /\ inflight[s].phase = "sent"
  /\ \E outcome \in Outcomes :
       LET row == [id |-> Len(workout_sessions) + 1,
                   day_id |-> inflight[s].req.rows[1].day_id,
                   started_at |-> Len(workout_sessions) + 1,
                   completed_at |-> Null]
       IN /\ IF outcome = "ok"
               THEN workout_sessions' = Append(workout_sessions, row)
               ELSE UNCHANGED workout_sessions
          /\ inflight' = [inflight EXCEPT ![s].phase = "replied",
               ![s].res = [outcome |-> outcome,
                           data |-> IF outcome = "ok" THEN row ELSE Null]]
          /\ last' = [op |-> "insert_workout_sessions", slot |-> s]
  /\ UNCHANGED <<session_exercises, progress_history, store, storage, issued, stats, catalog, pages>>

\* if (error) throw error: an error in the resolved result is thrown, and a
\* rejection of the await reaches the catch as well
StartThrowsIgnoringError(res) == res.outcome = "throw"
StartThrows(res) == res.outcome # "ok"

startWorkoutSession_resume(s) ==
  /\ inflight[s].op = "startWorkoutSession"
  /\ inflight[s].phase = "replied"
  /\ IF ~StartThrows(inflight[s].res)
       THEN /\ currentSession' = inflight[s].res.data
            /\ isLoading' = FALSE
            /\ error' = error
       ELSE /\ error' = Message(inflight[s].res.outcome)
            /\ isLoading' = FALSE
            /\ currentSession' = currentSession
  /\ storage' = Stored(currentSession', sessionExercises)
  /\ inflight' = [inflight EXCEPT ![s] = Idle]
  /\ last' = [op |-> "startWorkoutSession_resume", slot |-> s]
  /\ UNCHANGED <<remote, sessionExercises, issued, stats, catalog, pages>>

\* ------------------------------------------------------- recordWeight
\* if (!currentSession) return;
NoSessionNever(cs) == FALSE
NoSession(cs) == cs = Null

recordWeight(exerciseId, weight, setIndex) ==
  IF NoSession(currentSession)
    THEN /\ last' = [op |-> "recordWeight", slot |-> 0]
         /\ UNCHANGED <<remote, store, storage, inflight, issued, stats, catalog, pages>>
    ELSE /\ HasFreeSlot
         /\ issued < MaxCalls
         /\ inflight' = [inflight EXCEPT ![FreeSlot] =
              [op |-> "recordWeight", exerciseId |-> exerciseId, weight |-> weight,
               setIndex |-> setIndex, currentSession |-> currentSession,
               phase |-> "sent",
               req |-> [verb |-> "insert", table |-> "progress_history",
                        rows |-> <<[exercise_id |-> exerciseId, weight |-> weight]>>],
               res |-> Null]]
         /\ issued' = issued + 1
         /\ last' = [op |-> "recordWeight", slot |-> FreeSlot]
         /\ UNCHANGED <<remote, store, storage, stats, catalog, pages>>

\* created_at DEFAULT NOW(): later than every row already in the table
Now(rows) == IF Len(rows) = 0 THEN 1 ELSE rows[Len(rows)].created_at + 1

\* INSERT adds a row and leaves the rows of the table as they are
InsertedOverLatest(rows, row) ==
  IF Len(rows) = 0 THEN <<row>> ELSE [rows EXCEPT ![Len(rows)] = row]
Inserted(rows, row) == Append(rows, row)

\* the backend serves .from('progress_history').insert(...)
insert_progress_history(s) ==
  /\ inflight[s].op = "recordWeight"
  /\ inflight[s].phase = "sent"
  /\ \E outcome \in Outcomes :
       /\ IF outcome = "ok"
            THEN progress_history' = Inserted(progress_history,
                   [exercise_id |-> inflight[s].req.rows[1].exercise_id,
                    weight |-> inflight[s].req.rows[1].weight,
                    created_at |-> Now(progress_history)])
            ELSE UNCHANGED progress_history
       /\ inflight' = [inflight EXCEPT ![s].phase = "replied",
                                       ![s].res = [outcome |-> outcome]]
       /\ last' = [op |-> "insert_progress_history", slot |-> s]
  /\ UNCHANGED <<workout_sessions, session_exercises, store, storage, issued, stats, catalog, pages>>

\* existing?.sets_completed || 0
SetsCompletedForgotten(m, key) == 0
SetsCompleted(m, key) == IF MapHas(m, key) THEN m.val[key].sets_completed ELSE 0

\* (existing?.sets_completed || 0) + 1
IncrementedOnce(n) == IF n = 0 THEN 1 ELSE n
Incremented(n) == n + 1

\* the entry recordWeight puts under key
updatedExercise(m, key, c) ==
  Spread(IF MapHas(m, key) THEN m.val[key] ELSE EmptyObject,
         [exercise_id |-> c.exerciseId,
          session_id |-> c.currentSession.id,
          weight_used |-> c.weight,
          sets_completed |-> Incremented(SetsCompleted(m, key))])

\* the await of the insert settles: a resolved result (with or without an
\* error in it) falls through to the cache update, a rejection to the catch
recordWeight_resume(s) ==
  /\ inflight[s].op = "recordWeight"
  /\ inflight[s].phase = "replied"
  /\ LET c == inflight[s]
         key == Key(c.exerciseId, c.setIndex)
         v == updatedExercise(sessionExercises, key, c)
     IN IF c.res.outcome = "throw"
          THEN /\ error' = Message(c.res.outcome)
               /\ sessionExercises' = sessionExercises
               /\ inflight' = [inflight EXCEPT ![s] = Idle]
          ELSE /\ sessionExercises' = MapSet(sessionExercises, key, v)
               /\ error' = error
               /\ inflight' = [t \in Slots |->
                    IF t = s THEN Idle ELSE AfterMapSet(inflight[t], key, v)]
  /\ storage' = Stored(currentSession, sessionExercises')
  /\ last' = [op |-> "recordWeight_resume", slot |-> s]
  /\ UNCHANGED <<remote, currentSession, isLoading, issued, stats, catalog, pages>>

\* ------------------------------------------------------- completeSet
\* existing.reps_completed = reps
WithRepsCounted(existing, reps) ==
  Spread(existing, [reps_completed |-> reps,
                    sets_completed |-> existing.sets_completed + 1])
WithReps(existing, reps) == Spread(existing, [reps_completed |-> reps])

completeSet(exerciseId, setIndex, reps) ==
  LET key == Key(exerciseId, setIndex)
  IN /\ IF MapHas(sessionExercises, key)
          THEN LET v == WithReps(sessionExercises.val[key], reps)
               IN /\ sessionExercises' = MapSet(sessionExercises, key, v)
                  /\ inflight' = [t \in Slots |-> AfterEntryMutation(inflight[t], key, v)]
                  /\ storage' = Stored(currentSession, sessionExercises')
          ELSE UNCHANGED <<sessionExercises, inflight, storage>>
     /\ last' = [op |-> "completeSet", slot |-> 0, key |-> key]
     /\ UNCHANGED <<remote, currentSession, isLoading, error, issued, stats, catalog, pages>>

\* ------------------------------------------------------- completeWorkoutSession
completeWorkoutSession ==
  IF NoSession(currentSession)
    THEN /\ last' = [op |-> "completeWorkoutSession", slot |-> 0]
         /\ UNCHANGED <<remote, store, storage, inflight, issued, stats, catalog, pages>>
    ELSE /\ HasFreeSlot
         /\ issued < MaxCalls
         /\ inflight' = [inflight EXCEPT ![FreeSlot] =
              [op |-> "completeWorkoutSession", currentSession |-> currentSession,
               map |-> sessionExercises, aliased |-> TRUE,
               shared |-> DOMAIN sessionExercises.val,
               phase |-> "sent",
               req |-> [verb |-> "update", table |-> "workout_sessions",
                        completed_at |-> Str("now"), id |-> currentSession.id],
               res |-> Null]]
         /\ issued' = issued + 1
         /\ last' = [op |-> "completeWorkoutSession", slot |-> FreeSlot]
         /\ UNCHANGED <<remote, store, storage, stats, catalog, pages>>

\* the backend serves .from('workout_sessions').update({ completed_at }).eq('id', id)
update_workout_sessions(s) ==
  /\ inflight[s].op = "completeWorkoutSession"
  /\ inflight[s].phase = "sent"
  /\ \E outcome \in Outcomes :
       /\ IF outcome = "ok"
            THEN workout_sessions' = [i \in DOMAIN workout_sessions |->
                   IF workout_sessions[i].id = inflight[s].req.id
                     THEN [workout_sessions[i] EXCEPT !.completed_at = inflight[s].req.completed_at]
                     ELSE workout_sessions[i]]
            ELSE UNCHANGED workout_sessions
       /\ inflight' = [inflight EXCEPT ![s].phase = "replied",
                                       ![s].res = [outcome |-> outcome]]
       /\ last' = [op |-> "update_workout_sessions", slot |-> s]
  /\ UNCHANGED <<session_exercises, progress_history, store, storage, issued, stats, catalog, pages>>

\* Array.from(sessionExercises.values()).filter(ex => ex.weight_used && ex.weight_used > 0)
exercisesToSaveUnfiltered(m) == MapValues(m)
exercisesToSave(m) == SelectSeq(MapValues(m), LAMBDA ex : ex.weight_used > 0)

\* if (exercisesToSave.length > 0)
AlwaysRowsToSave(rows) == TRUE
HasRowsToSave(rows) == Len(rows) > 0

\* set({ currentSession: null, sessionExercises: new Map(), isLoading: false })
CompleteClears(s) ==
  /\ currentSession' = Null
  /\ sessionExercises' = EmptyMap
  /\ isLoading' = FALSE
  /\ error' = error
  /\ inflight' = [t \in Slots |-> IF t = s THEN Idle ELSE AfterMapCleared(inflight[t])]

\* catch: set({ error })
CompleteCatches(s) ==
  /\ error' = Message(inflight[s].res.outcome)
  /\ inflight' = [inflight EXCEPT ![s] = Idle]
  /\ UNCHANGED <<currentSession, sessionExercises, isLoading>>

\* the await of the update settles; the rows to save are computed and, when
\* there are any, the bulk insert is issued
completeWorkoutSession_resume(s) ==
  /\ inflight[s].op = "completeWorkoutSession"
  /\ inflight[s].phase = "replied"
  /\ LET c == inflight[s]
         rows == exercisesToSave(c.map)
     IN IF c.res.outcome = "throw"
          THEN CompleteCatches(s)
          ELSE IF HasRowsToSave(rows)
            THEN /\ inflight' = [inflight EXCEPT ![s] =
                      [op |-> "completeWorkoutSession",
                       currentSession |-> c.currentSession,
                       phase |-> "sent2",
                       req |-> [verb |-> "insert", table |-> "session_exercises",
                                rows |-> rows],
                       res |-> Null]]
                 /\ UNCHANGED store
            ELSE CompleteClears(s)
  /\ storage' = IF inflight'[s].op = "idle"
                  THEN Stored(currentSession', sessionExercises')
                  ELSE storage
  /\ last' = [op |-> "completeWorkoutSession_resume", slot |-> s]
  /\ UNCHANGED <<remote, issued, stats, catalog, pages>>

\* the backend serves .from('session_exercises').insert(exercisesToSave)
insert_session_exercises(s) ==
  /\ inflight[s].op = "completeWorkoutSession"
  /\ inflight[s].phase = "sent2"
  /\ \E outcome \in Outcomes :
       /\ IF outcome = "ok"
            THEN session_exercises' = session_exercises \o inflight[s].req.rows
            ELSE UNCHANGED session_exercises
       /\ inflight' = [inflight EXCEPT ![s].phase = "replied2",
                                       ![s].res = [outcome |-> outcome]]
       /\ last' = [op |-> "insert_session_exercises", slot |-> s]
  /\ UNCHANGED <<workout_sessions, progress_history, store, storage, issued, stats, catalog, pages>>

\* the await of the bulk insert settles
completeWorkoutSession_finish(s) ==
  /\ inflight[s].op = "completeWorkoutSession"
  /\ inflight[s].phase = "replied2"
  /\ IF inflight[s].res.outcome = "throw"
       THEN CompleteCatches(s)
       ELSE CompleteClears(s)
  /\ storage' = Stored(currentSession', sessionExercises')
  /\ last' = [op |-> "completeWorkoutSession_finish", slot |-> s]
  /\ UNCHANGED <<remote, issued, stats, catalog, pages>>

\* ------------------------------------------------------- loadCurrentSession
loadCurrentSession(dayId) ==
  /\ HasFreeSlot
  /\ issued < MaxCalls
  /\ issued' = issued + 1
  /\ inflight' = [inflight EXCEPT ![FreeSlot] =
       [op |-> "loadCurrentSession", dayId |-> dayId, phase |-> "sent",
        req |-> [verb |-> "select", table |-> "workout_sessions", day_id |-> dayId],
        res |-> Null]]
  /\ last' = [op |-> "loadCurrentSession", slot |-> FreeSlot]
  /\ UNCHANGED <<remote, store, storage, stats, catalog, pages>>

\* .eq('day_id', dayId).is('completed_at', null)
OpenSessions(dayId) ==
  {i \in DOMAIN workout_sessions :
     workout_sessions[i].day_id = dayId /\ workout_sessions[i].completed_at = Null}

\* .order('started_at', { ascending: false }).limit(1).single()
LatestOpenSession(dayId) ==
  IF OpenSessions(dayId) = {} THEN Null
  ELSE workout_sessions[CHOOSE i \in OpenSessions(dayId) :
         \A j \in OpenSessions(dayId) :
           workout_sessions[j].started_at <= workout_sessions[i].started_at]

\* the backend serves the select
select_workout_sessions(s) ==
  /\ inflight[s].op = "loadCurrentSession"
  /\ inflight[s].phase = "sent"
  /\ \E outcome \in Outcomes :
       /\ inflight' = [inflight EXCEPT ![s].phase = "replied",
            ![s].res = [outcome |-> outcome,
                        data |-> IF outcome = "ok"
                                   THEN LatestOpenSession(inflight[s].req.day_id)
                                   ELSE Null]]
       /\ last' = [op |-> "select_workout_sessions", slot |-> s]
  /\ UNCHANGED <<remote, store, storage, issued, stats, catalog, pages>>

loadCurrentSession_resume(s) ==
  /\ inflight[s].op = "loadCurrentSession"
  /\ inflight[s].phase = "replied"
  /\ IF inflight[s].res.outcome # "throw" /\ inflight[s].res.data # Null
       THEN /\ currentSession' = inflight[s].res.data
            /\ storage' = Stored(currentSession', sessionExercises)
       ELSE UNCHANGED <<currentSession, storage>>
  /\ inflight' = [inflight EXCEPT ![s] = Idle]
  /\ last' = [op |-> "loadCurrentSession_resume", slot |-> s]
  /\ UNCHANGED <<remote, sessionExercises, isLoading, error, issued, stats, catalog, pages>>

\* ------------------------------------------------------- clearSession
clearSession ==
  /\ currentSession' = Null
  /\ sessionExercises' = EmptyMap
  /\ error' = Null
  /\ inflight' = [t \in Slots |-> AfterMapCleared(inflight[t])]
  /\ storage' = Stored(currentSession', sessionExercises')
  /\ last' = [op |-> "clearSession", slot |-> 0]
  /\ UNCHANGED <<remote, isLoading, issued, stats, catalog, pages>>

\* ------------------------------------------------------- page reload
\* The page is loaded again: suspended calls are gone, the store is built
\* from its initial state and the persisted item.
Reload ==
  /\ currentSession' = IF storage = Null THEN Null ELSE Rehydrate(storage).currentSession
  /\ sessionExercises' = IF storage = Null THEN EmptyMap
                         ELSE Rehydrate(storage).sessionExercises
  /\ isLoading' = FALSE
  /\ error' = Null
  /\ inflight' = [s \in Slots |-> Idle]
  /\ last' = [op |-> "Reload", slot |-> 0]
  /\ UNCHANGED <<remote, storage, issued, stats, catalog, pages>>

\* ------------------------------------------------------- specifications
UserStep ==
  \/ \E d \in Days : startWorkoutSession(d)
  \/ \E e \in Exercises, w \in Weights, i \in SetIndexes : recordWeight(e, w, i)
  \/ \E e \in Exercises, i \in SetIndexes, r \in Reps : completeSet(e, i, r)
  \/ completeWorkoutSession
  \/ \E d \in Days : loadCurrentSession(d)
  \/ clearSession
  \/ Reload

ServerStep ==
  \E s \in Slots :
    \/ insert_workout_sessions(s)
    \/ insert_progress_history(s)
    \/ update_workout_sessions(s)
    \/ insert_session_exercises(s)
    \/ select_workout_sessions(s)

ResumeStep ==
  \E s \in Slots :
    \/ startWorkoutSession_resume(s)
    \/ recordWeight_resume(s)
    \/ completeWorkoutSession_resume(s)
    \/ completeWorkoutSession_finish(s)
    \/ loadCurrentSession_resume(s)

Next == UserStep \/ ServerStep \/ ResumeStep

Spec == Init /\ [][Next]_vars

\* one user operation at a time: the next one starts when none is suspended
SeqNext ==
  \/ \E d \in Days : NoneInFlight /\ startWorkoutSession(d)
  \/ \E e \in Exercises, w \in Weights, i \in SetIndexes :
       NoneInFlight /\ recordWeight(e, w, i)
  \/ \E e \in Exercises, i \in SetIndexes, r \in Reps :
       NoneInFlight /\ completeSet(e, i, r)
  \/ NoneInFlight /\ completeWorkoutSession
  \/ \E d \in Days : NoneInFlight /\ loadCurrentSession(d)
  \/ NoneInFlight /\ clearSession
  \/ NoneInFlight /\ Reload
  \/ ServerStep
  \/ ResumeStep

SeqSpec == Init /\ [][SeqNext]_vars

\* overlapping calls: while a session is underway the handlers are invoked
\* without waiting for the calls already suspended; a session of the day "d1"
\* is started when no call is suspended
RaceNext ==
  \/ NoneInFlight /\ startWorkoutSession("d1")
  \/ \E e \in Exercises, w \in Weights \ {0}, i \in SetIndexes : recordWeight(e, w, i)
  \/ completeWorkoutSession
  \/ clearSession
  \/ \E s \in Slots :
       \/ insert_workout_sessions(s)
       \/ insert_progress_history(s)
       \/ update_workout_sessions(s)
       \/ insert_session_exercises(s)
       \/ startWorkoutSession_resume(s)
       \/ recordWeight_resume(s)
       \/ completeWorkoutSession_resume(s)
       \/ completeWorkoutSession_finish(s)

RaceSpec == Init /\ [][RaceNext]_vars

\* ------------------------------------------------------- statistics
\* a DECIMAL value, kept exact as a fraction with a positive denominator
Dec(n) == [num |-> n, den |-> 1]
DecSub(a, b) == [num |-> a.num * b.den - b.num * a.den, den |-> a.den * b.den]
DecMul(a, b) == [num |-> a.num * b.num, den |-> a.den * b.den]
DecDiv(a, b) ==
  IF b.num > 0 THEN [num |-> a.num * b.den, den |-> a.den * b.num]
  ELSE [num |-> 0 - a.num * b.den, den |-> 0 - a.den * b.num]
DecLeq(a, b) == a.num * b.den <= b.num * a.den

\* WITH progress_data AS (SELECT ... WHERE ...): the rows that pass the filter
progress_dataExclusive(rows, p_exercise_id, p_start_date, p_end_date) ==
  {i \in DOMAIN rows :
     /\ rows[i].exercise_id = p_exercise_id
     /\ (p_start_date = Null \/ rows[i].created_at > p_start_date.v)
     /\ (p_end_date = Null \/ rows[i].created_at < p_end_date.v)}
progress_data(rows, p_exercise_id, p_start_date, p_end_date) ==
  {i \in DOMAIN rows :
     /\ rows[i].exercise_id = p_exercise_id
     /\ (p_start_date = Null \/ rows[i].created_at >= p_start_date.v)
     /\ (p_end_date = Null \/ rows[i].created_at <= p_end_date.v)}

\* ROW_NUMBER() OVER (ORDER BY created_at DESC) = 1: a row no other row is
\* later than; rows with equal created_at may come in either order
FirstByCreatedAtAsc(rows, pd) ==
  {i \in pd : \A j \in pd : rows[j].created_at >= rows[i].created_at}
FirstByCreatedAtDesc(rows, pd) ==
  {i \in pd : \A j \in pd : rows[j].created_at <= rows[i].created_at}

MaxWeight(rows, pd) == CHOOSE w \in {rows[i].weight : i \in pd} :
                         \A i \in pd : rows[i].weight <= w
MinWeight(rows, pd) == CHOOSE w \in {rows[i].weight : i \in pd} :
                         \A i \in pd : rows[i].weight >= w

RECURSIVE SumWeight(_, _)
SumWeight(rows, pd) ==
  IF pd = {} THEN 0
  ELSE LET i == CHOOSE x \in pd : TRUE
       IN rows[i].weight + SumWeight(rows, pd \ {i})

\* MAX, MIN and AVG over no rows, and a scalar subquery that finds no row,
\* are NULL
ZeroOverNoRows == Dec(0)
OverNoRows == Null

\* the stats CTE, with rn1 the row numbered 1
stats_cte(rows, pd, rn1) ==
  IF pd = {}
    THEN [total_sessions |-> 0, max_weight |-> OverNoRows, min_weight |-> OverNoRows,
          avg_weight |-> OverNoRows, latest_weight |-> OverNoRows]
    ELSE [total_sessions |-> Cardinality(pd),
          max_weight |-> Dec(MaxWeight(rows, pd)),
          min_weight |-> Dec(MinWeight(rows, pd)),
          avg_weight |-> [num |-> SumWeight(rows, pd), den |-> Cardinality(pd)],
          latest_weight |-> Dec(rows[rn1].weight)]

\* ((s.latest_weight - s.min_weight) / s.min_weight * 100)
progressionOverLatest(st) ==
  IF st.latest_weight.num = 0 THEN Dec(0)
  ELSE DecMul(DecDiv(DecSub(st.latest_weight, st.min_weight), st.latest_weight), Dec(100))
progression(st) ==
  DecMul(DecDiv(DecSub(st.latest_weight, st.min_weight), st.min_weight), Dec(100))

\* the final SELECT: the stats row with weight_progression, or the error
\* PostgreSQL raises when the CASE divides by a zero min_weight
stats_row(st) ==
  IF st.total_sessions > 1
    THEN IF st.min_weight.num = 0
           THEN [error |-> "division by zero"]
           ELSE [total_sessions |-> st.total_sessions,
                 max_weight |-> st.max_weight,
                 min_weight |-> st.min_weight,
                 avg_weight |-> st.avg_weight,
                 latest_weight |-> st.latest_weight,
                 weight_progression |-> progression(st)]
    ELSE [total_sessions |-> st.total_sessions,
          max_weight |-> st.max_weight,
          min_weight |-> st.min_weight,
          avg_weight |-> st.avg_weight,
          latest_weight |-> st.latest_weight,
          weight_progression |-> Dec(0)]

get_exercise_progress_stats(p_exercise_id, p_start_date, p_end_date) ==
  LET pd == progress_data(progress_history, p_exercise_id, p_start_date, p_end_date)
  IN /\ \E rn1 \in (IF pd = {} THEN {0} ELSE FirstByCreatedAtDesc(progress_history, pd)) :
          stats' = [p_exercise_id |-> p_exercise_id,
                    p_start_date |-> p_start_date,
                    p_end_date |-> p_end_date,
                    result |-> stats_row(stats_cte(progress_history, pd, rn1))]
     /\ last' = [op |-> "get_exercise_progress_stats", slot |-> 0]
     /\ UNCHANGED <<remote, store, storage, inflight, issued, catalog, pages>>

Some(v) == [type |-> "value", v |-> v]

StatDates == {Null, Some(2)}

\* observations of the exercise "e1" of every weight, and of the other
\* exercises of one weight
ObservationRows ==
  [exercise_id : {"e1"}, weight : StatWeights, created_at : StatTimes]
    \cup [exercise_id : StatExercises \ {"e1"}, weight : {60}, created_at : StatTimes]

\* tables of at most MaxObs observations, in the order they were inserted
ObservationTables ==
  {t \in UNION {[1..n -> ObservationRows] : n \in 0..MaxObs} :
     \A i \in 1..(Len(t) - 1) : t[i].created_at <= t[i + 1].created_at}

StatsInit ==
  /\ progress_history \in ObservationTables
  /\ profiles = <<>>
  /\ training_days = <<>>
  /\ exercises = <<>>
  /\ generated = 0
  /\ workout_sessions = <<>>
  /\ session_exercises = <<>>
  /\ currentSession = Null
  /\ sessionExercises = EmptyMap
  /\ isLoading = FALSE
  /\ error = Null
  /\ storage = Null
  /\ inflight = [s \in Slots |-> Idle]
  /\ issued = 0
  /\ stats = Null
  /\ last = [op |-> "init"]
  /\ PagesInit

StatsNext ==
  \E e \in StatExercises, a \in StatDates, b \in StatDates :
    get_exercise_progress_stats(e, a, b)

StatsSpec == StatsInit /\ [][StatsNext]_vars

\* ------------------------------------------------------- trend line
TrendValues == {0, 10, 15, 20, 30}

\* a JavaScript number that is not a number (0 / 0)
NaN == [type |-> "NaN"]

Abs(x) == IF x < 0 THEN 0 - x ELSE x

RECURSIVE Gcd(_, _)
Gcd(a, b) == IF b = 0 THEN a ELSE Gcd(b, a % b)

\* a number has one value: the fraction in lowest terms
Number(q) ==
  LET g == Gcd(Abs(q.num), q.den)
  IN [num |-> q.num \div g, den |-> q.den \div g]

DecAdd(a, b) == [num |-> a.num * b.den + b.num * a.den, den |-> a.den * b.den]

\* data.reduce((sum, y, i) => sum + f(y, i), 0) over the first k elements
RECURSIVE Reduce(_, _, _)
Reduce(f(_, _), data, k) ==
  IF k = 0 THEN Dec(0) ELSE DecAdd(Reduce(f, data, k - 1), f(data[k], k - 1))

sumX(data) == Reduce(LAMBDA y, i : Dec(i), data, Len(data))
sumY(data) == Reduce(LAMBDA y, i : y, data, Len(data))
sumXY(data) == Reduce(LAMBDA y, i : DecMul(Dec(i), y), data, Len(data))
sumXX(data) == Reduce(LAMBDA y, i : Dec(i * i), data, Len(data))

\* (n * sumXY - sumX * sumY) / (n * sumXX - sumX * sumX)
slope(data) ==
  LET n == Dec(Len(data))
      above == DecSub(DecMul(n, sumXY(data)), DecMul(sumX(data), sumY(data)))
      below == DecSub(DecMul(n, sumXX(data)), DecMul(sumX(data), sumX(data)))
  IN IF below.num = 0 THEN NaN ELSE Number(DecDiv(above, below))

\* (sumY - slope * sumX) / n
interceptWithoutSlope(data) ==
  IF slope(data) = NaN THEN NaN
  ELSE Number(DecDiv(sumY(data), Dec(Len(data))))
intercept(data) ==
  IF slope(data) = NaN THEN NaN
  ELSE Number(DecDiv(DecSub(sumY(data), DecMul(slope(data), sumX(data))),
                     Dec(Len(data))))

\* if (data.length < 2) return data
TooFewPointsOnlyEmpty(data) == Len(data) < 1
TooFewPoints(data) == Len(data) < 2

\* data.map((_, i) => slope * i + intercept)
calculateTrendLine(data) ==
  IF TooFewPoints(data) THEN data
  ELSE [k \in 1..Len(data) |->
          IF slope(data) = NaN THEN NaN
          ELSE Number(DecAdd(DecMul(slope(data), Dec(k - 1)), intercept(data)))]

\* the weights a chart can receive, oldest first
TrendInputs ==
  UNION {[1..n -> {Dec(v) : v \in TrendValues}] : n \in 0..MaxPoints}

\* ProgressChart is given its data
TrendInit ==
  /\ StoreInit
  /\ \E data \in TrendInputs : trend = [data |-> data, line |-> Null]
  /\ weightInput = Null
  /\ report = Null
  /\ dashboard = Null
  /\ response = Null
  /\ pdf = Null
  /\ tabs = Null

\* the chart computes the trend line of its data
ProgressChart ==
  /\ trend.line = Null
  /\ trend' = [trend EXCEPT !.line = Some(calculateTrendLine(trend.data))]
  /\ last' = [op |-> "calculateTrendLine", slot |-> 0]
  /\ UNCHANGED <<remote, store, storage, inflight, issued, stats, catalog, weightInput,
                 report, dashboard, response, pdf, tabs>>

TrendNext == ProgressChart

TrendSpec == TrendInit /\ [][TrendNext]_vars

\* ------------------------------------------------------- WeightInput
\* what the user can type into the number field
TypedTexts == {"", "-5", "0.5", "999.5", "1000", "1000.5"}

\* the amounts of the increment and decrement buttons: 1, 2.5 and 10
Amounts == {Dec(1), [num |-> 5, den |-> 2], Dec(10)}

\* parseFloat(e.target.value) for the texts above
parseFloat(text) ==
  CASE text = "" -> NaN
    [] text = "-5" -> Dec(0 - 5)
    [] text = "0.5" -> [num |-> 1, den |-> 2]
    [] text = "999.5" -> [num |-> 1999, den |-> 2]
    [] text = "1000" -> Dec(1000)
    [] text = "1000.5" -> [num |-> 2001, den |-> 2]

\* x || 0: NaN and 0 are falsy
OrZero(x) == IF x = NaN THEN Dec(0) ELSE x

MathMax(a, b) == IF DecLeq(a, b) THEN b ELSE a
MathMin(a, b) == IF DecLeq(a, b) THEN a ELSE b

\* Math.max(0, Math.min(1000, newWeight))
validWeightWithoutMaximum(newWeight) == Number(MathMax(Dec(0), newWeight))
validWeight(newWeight) == Number(MathMax(Dec(0), MathMin(Dec(1000), newWeight)))

\* the component is mounted: useState(previousWeight) with the default 0,
\* useState(false), and no set marked completed in the parent
InputInit ==
  /\ StoreInit
  /\ trend = Null
  /\ weightInput = [weight |-> Dec(0), isRecording |-> FALSE, call |-> Null,
                    completed |-> FALSE, edits |-> 0]
  /\ report = Null
  /\ dashboard = Null
  /\ response = Null
  /\ pdf = Null
  /\ tabs = Null

\* setWeight(validWeight); onWeightChange?.(validWeight), which is the
\* parent's markSetCompleted
handleWeightChange(newWeight) ==
  /\ weightInput.edits < MaxEdits
  /\ weightInput' = [weightInput EXCEPT !.weight = validWeight(newWeight),
                                        !.completed = TRUE,
                                        !.edits = @ + 1]
  /\ UNCHANGED <<remote, store, storage, inflight, issued, stats, catalog, trend,
                 report, dashboard, response, pdf, tabs>>

\* onChange of the number field
onChange(text) ==
  /\ handleWeightChange(OrZero(parseFloat(text)))
  /\ last' = [op |-> "onChange", slot |-> 0]

increment(amount) ==
  /\ handleWeightChange(DecAdd(weightInput.weight, amount))
  /\ last' = [op |-> "increment", slot |-> 0]

decrement(amount) ==
  /\ handleWeightChange(DecSub(weightInput.weight, amount))
  /\ last' = [op |-> "decrement", slot |-> 0]

\* the click handler of 'Registrar Peso', up to its await; the button is
\* disabled while isRecording
handleRecordWeight ==
  /\ ~weightInput.isRecording
  /\ IF DecLeq(weightInput.weight, Dec(0))
       THEN UNCHANGED weightInput
       ELSE weightInput' = [weightInput EXCEPT !.isRecording = TRUE,
                                               !.call = Some(weightInput.weight)]
  /\ last' = [op |-> "handleRecordWeight", slot |-> 0]
  /\ UNCHANGED <<remote, store, storage, inflight, issued, stats, catalog, trend,
                 report, dashboard, response, pdf, tabs>>

\* the promise of recordWeight settles: finally { setIsRecording(false) }
handleRecordWeight_finally ==
  /\ weightInput.call # Null
  /\ weightInput' = [weightInput EXCEPT !.isRecording = FALSE, !.call = Null]
  /\ last' = [op |-> "handleRecordWeight_finally", slot |-> 0]
  /\ UNCHANGED <<remote, store, storage, inflight, issued, stats, catalog, trend,
                 report, dashboard, response, pdf, tabs>>

InputNext ==
  \/ \E text \in TypedTexts : onChange(text)
  \/ \E amount \in Amounts : increment(amount)
  \/ \E amount \in Amounts : decrement(amount)
  \/ handleRecordWeight
  \/ handleRecordWeight_finally

InputSpec == InputInit /\ [][InputNext]_vars

\* ------------------------------------------------------- database
\* The tables as the DDL declares them: every foreign key is NOT NULL and
\* ON DELETE CASCADE.  DbSpec runs single SQL statements against them.
DbUsers == {"u1", "u2"}
DbNames == {"Push"}

Ids(rows) == {rows[i].id : i \in DOMAIN rows}

\* REFERENCES parent(id): an insert is accepted when the parent row exists
References(id, parents) == id \in Ids(parents)

\* ON DELETE CASCADE: the rows whose parent is still there
KeptWithoutParent(rows, fk, parents) == rows
Kept(rows, fk, parents) == SelectSeq(rows, LAMBDA r : r[fk] \in Ids(parents))

\* the cascade below exercises and workout_sessions, once their rows after
\* the statement are known
CascadeBelowExercises ==
  /\ progress_history' = Kept(progress_history, "exercise_id", exercises')
  /\ session_exercises' =
       Kept(Kept(session_exercises, "session_id", workout_sessions'),
            "exercise_id", exercises')

\* the cascade below training_days
CascadeBelowDays ==
  /\ exercises' = Kept(exercises, "day_id", training_days')
  /\ workout_sessions' = Kept(workout_sessions, "day_id", training_days')
  /\ CascadeBelowExercises

\* how many rows a statement removed from each table
Removed ==
  [profiles |-> Len(profiles) - Len(profiles'),
   training_days |-> Len(training_days) - Len(training_days'),
   exercises |-> Len(exercises) - Len(exercises'),
   progress_history |-> Len(progress_history) - Len(progress_history'),
   workout_sessions |-> Len(workout_sessions) - Len(workout_sessions'),
   session_exercises |-> Len(session_exercises) - Len(session_exercises')]

NotInDb == <<store, storage, inflight, issued, stats, pages>>

\* INSERT INTO profiles: id is the primary key
profiles_insert(u) ==
  /\ IF u \in Ids(profiles)
       THEN UNCHANGED profiles
       ELSE profiles' = Append(profiles, [id |-> u, email |-> u \o "@example.com"])
  /\ last' = [op |-> "profiles_insert", slot |-> 0]
  /\ UNCHANGED <<training_days, exercises, generated, remote, NotInDb>>

\* DELETE FROM profiles WHERE id = u
profiles_delete(u) ==
  /\ profiles' = SelectSeq(profiles, LAMBDA r : r.id # u)
  /\ training_days' = Kept(training_days, "user_id", profiles')
  /\ CascadeBelowDays
  /\ last' = [op |-> "profiles_delete", slot |-> 0, id |-> u, removed |-> Removed]
  /\ UNCHANGED <<generated, NotInDb>>

\* INSERT INTO training_days
training_days_insert(user_id, day_name, day_order) ==
  /\ generated < MaxRows
  /\ IF References(user_id, profiles)
       THEN /\ training_days' = Append(training_days,
                 [id |-> generated + 1, user_id |-> user_id,
                  day_name |-> day_name, day_order |-> day_order])
            /\ generated' = generated + 1
       ELSE UNCHANGED <<training_days, generated>>
  /\ last' = [op |-> "training_days_insert", slot |-> 0]
  /\ UNCHANGED <<profiles, exercises, remote, NotInDb>>

\* DELETE FROM training_days WHERE id = id
training_days_delete(id) ==
  /\ training_days' = SelectSeq(training_days, LAMBDA r : r.id # id)
  /\ CascadeBelowDays
  /\ UNCHANGED <<profiles, generated, NotInDb>>
  /\ last' = [op |-> "training_days_delete", slot |-> 0, id |-> id, removed |-> Removed]

\* INSERT INTO exercises
exercises_insert(day_id, name, order_index) ==
  /\ generated < MaxRows
  /\ IF References(day_id, training_days)
       THEN /\ exercises' = Append(exercises,
                 [id |-> generated + 1, day_id |-> day_id, name |-> name,
                  sets |-> 3, reps |-> "12", order_index |-> order_index])
            /\ generated' = generated + 1
       ELSE UNCHANGED <<exercises, generated>>
  /\ last' = [op |-> "exercises_insert", slot |-> 0]
  /\ UNCHANGED <<profiles, training_days, remote, NotInDb>>

\* DELETE FROM exercises WHERE id = id
exercises_delete(id) ==
  /\ UNCHANGED <<profiles, training_days, workout_sessions, generated, NotInDb>>
  /\ exercises' = SelectSeq(exercises, LAMBDA r : r.id # id)
  /\ CascadeBelowExercises
  /\ last' = [op |-> "exercises_delete", slot |-> 0, id |-> id, removed |-> Removed]

\* INSERT INTO progress_history
progress_history_insert(exercise_id, weight) ==
  /\ generated < MaxRows
  /\ IF References(exercise_id, exercises)
       THEN /\ progress_history' = Append(progress_history,
                 [exercise_id |-> exercise_id, weight |-> weight,
                  created_at |-> Now(progress_history)])
            /\ generated' = generated + 1
       ELSE UNCHANGED <<progress_history, generated>>
  /\ last' = [op |-> "progress_history_insert", slot |-> 0]
  /\ UNCHANGED <<profiles, training_days, exercises, workout_sessions,
                 session_exercises, NotInDb>>

\* INSERT INTO workout_sessions
workout_sessions_insert(day_id) ==
  /\ generated < MaxRows
  /\ IF References(day_id, training_days)
       THEN /\ workout_sessions' = Append(workout_sessions,
                 [id |-> generated + 1, day_id |-> day_id,
                  started_at |-> generated + 1, completed_at |-> Null])
            /\ generated' = generated + 1
       ELSE UNCHANGED <<workout_sessions, generated>>
  /\ last' = [op |-> "workout_sessions_insert", slot |-> 0]
  /\ UNCHANGED <<profiles, training_days, exercises, progress_history,
                 session_exercises, NotInDb>>

\* INSERT INTO session_exercises
session_exercises_insert(session_id, exercise_id, weight_used) ==
  /\ generated < MaxRows
  /\ IF References(session_id, workout_sessions) /\ References(exercise_id, exercises)
       THEN /\ session_exercises' = Append(session_exercises,
                 [session_id |-> session_id, exercise_id |-> exercise_id,
                  weight_used |-> weight_used, sets_completed |-> 1])
            /\ generated' = generated + 1
       ELSE UNCHANGED <<session_exercises, generated>>
  /\ last' = [op |-> "session_exercises_insert", slot |-> 0]
  /\ UNCHANGED <<profiles, training_days, exercises, progress_history,
                 workout_sessions, NotInDb>>

DbInit == StoreInit /\ PagesInit

\* the statements name a row that exists, or the id 0 no row has
DbNext ==
  \/ \E u \in DbUsers : profiles_insert(u)
  \/ \E u \in DbUsers : profiles_delete(u)
  \/ \E u \in DbUsers, n \in DbNames : training_days_insert(u, n, 0)
  \/ \E id \in Ids(training_days) \cup {0} : training_days_delete(id)
  \/ \E id \in Ids(training_days) \cup {0}, n \in DbNames : exercises_insert(id, n, 0)
  \/ \E id \in Ids(exercises) \cup {0} : exercises_delete(id)
  \/ \E id \in Ids(exercises) \cup {0} : progress_history_insert(id, 60)
  \/ \E id \in Ids(training_days) \cup {0} : workout_sessions_insert(id)
  \/ \E s \in Ids(workout_sessions) \cup {0}, e \in Ids(exercises) \cup {0} :
       session_exercises_insert(s, e, 60)

DbSpec == DbInit /\ [][DbNext]_vars

\* ------------------------------------------------------- report generator
\* the value of a property an object does not have
Undefined == [type |-> "undefined"]

\* obj.f
Get(obj, f) == IF f \in DOMAIN obj THEN obj[f] ELSE Undefined

\* v.toFixed(1) and v.toString() throw a TypeError on undefined and on null
ThrowsOnCall(v) == v \in {Undefined, Null}

\* the exercises the component has loaded, and the period it starts with
ReportExercises == <<[id |-> "e1", name |-> "Press banca"],
                     [id |-> "e2", name |-> "Sentadilla"]>>
ReportConfig == [start_date |-> Some(1), end_date |-> Some(3),
                 include_charts |-> TRUE]

Obs(e, w, t) == [exercise_id |-> e, weight |-> w, created_at |-> t]
ReportTables ==
  { <<>>,
    <<Obs("e1", 60, 1)>>,
    <<Obs("e1", 60, 1), Obs("e1", 70, 2)>>,
    <<Obs("e1", 0, 1), Obs("e1", 60, 2)>>,
    <<Obs("e1", 60, 1), Obs("e2", 60, 2), Obs("e2", 65, 3)>> }

ReportInit ==
  /\ progress_history \in ReportTables
  /\ profiles = <<>>
  /\ training_days = <<>>
  /\ exercises = <<>>
  /\ generated = 0
  /\ workout_sessions = <<>>
  /\ session_exercises = <<>>
  /\ currentSession = Null
  /\ sessionExercises = EmptyMap
  /\ isLoading = FALSE
  /\ error = Null
  /\ storage = Null
  /\ inflight = [s \in Slots |-> Idle]
  /\ issued = 0
  /\ stats = Null
  /\ last = [op |-> "init"]
  /\ pdf = Null
  /\ tabs = Null
  /\ trend = Null
  /\ weightInput = Null
  /\ dashboard = Null
  /\ response = Null
  /\ report = [config |-> ReportConfig, exercises |-> ReportExercises,
               selectedExercises |-> <<>>, isGenerating |-> FALSE,
               stats |-> <<>>, calls |-> <<>>]

NotReport == <<remote, store, storage, inflight, stats, catalog, trend,
               weightInput, dashboard, response, pdf, tabs>>

\* the checkbox of an exercise: checked appends its id, unchecked filters it out
onChange_exercise(id) ==
  /\ report.calls = <<>>
  /\ report' = [report EXCEPT !.selectedExercises =
                  IF \E i \in DOMAIN @ : @[i] = id
                    THEN SelectSeq(@, LAMBDA x : x # id)
                    ELSE Append(@, id)]
  /\ last' = [op |-> "onChange_exercise"]
  /\ UNCHANGED <<NotReport, issued>>

\* if (selectedExercises.length === 0)
NoSelection(selected) == Len(selected) = 0

\* generateReport up to the await of Promise.all: one rpc per selected exercise
generateReport ==
  /\ report.calls = <<>>
  /\ issued + Len(report.selectedExercises) <= MaxCalls
  /\ IF NoSelection(report.selectedExercises)
       THEN /\ last' = [op |-> "generateReport",
                        alert |-> "Por favor selecciona al menos un ejercicio"]
            /\ UNCHANGED <<report, issued>>
       ELSE /\ report' = [report EXCEPT
                 !.isGenerating = TRUE,
                 !.calls = [i \in DOMAIN report.selectedExercises |->
                              [p_exercise_id |-> report.selectedExercises[i],
                               p_start_date |-> report.config.start_date,
                               p_end_date |-> report.config.end_date,
                               state |-> "sent", data |-> Null]]]
            /\ issued' = issued + Len(report.selectedExercises)
            /\ last' = [op |-> "generateReport", alert |-> ""]
  /\ UNCHANGED NotReport

\* the server answers one rpc: { data, error }, or the request fails
rpc_get_exercise_progress_stats(i, outcome) ==
  /\ i \in DOMAIN report.calls
  /\ report.calls[i].state = "sent"
  /\ LET c == report.calls[i]
         pd == progress_data(progress_history, c.p_exercise_id,
                             c.p_start_date, c.p_end_date)
     IN \E rn1 \in (IF pd = {} THEN {0} ELSE FirstByCreatedAtDesc(progress_history, pd)) :
          LET row == stats_row(stats_cte(progress_history, pd, rn1))
          IN report' = [report EXCEPT !.calls[i] =
               IF outcome = "ok" /\ "error" \notin DOMAIN row
                 THEN [c EXCEPT !.state = "ok", !.data = <<row>>]
                 ELSE [c EXCEPT !.state = IF outcome = "ok" THEN "error" ELSE outcome]]
  /\ last' = [op |-> "rpc_get_exercise_progress_stats"]
  /\ UNCHANGED <<NotReport, issued>>

\* { ...data[0], exercise_id, exercise_name }
StatOf(c, loaded) ==
  LET found == {j \in DOMAIN loaded : loaded[j].id = c.p_exercise_id}
  IN [exercise_id |-> c.p_exercise_id,
      exercise_name |-> IF found = {} THEN "Ejercicio desconocido"
                        ELSE loaded[CHOOSE j \in found : \A k \in found : j <= k].name]
       @@ c.data[1]

\* stats.reduce((prev, current) => prev.weight_progression >
\* current.weight_progression ? prev : current) over the first k entries
RECURSIVE ReduceBest(_, _)
ReduceBest(sts, k) ==
  IF k = 1 THEN sts[1]
  ELSE LET prev == ReduceBest(sts, k - 1)
           a == Get(prev, "weight_progression")
           b == Get(sts[k], "weight_progression")
       IN IF a \notin {Undefined, Null} /\ b \notin {Undefined, Null}
               /\ ~DecLeq(a, b)
            THEN prev ELSE sts[k]

\* getBestExercise: best.weight_progression.toFixed(1)
\* (reduce without an initial value throws on an empty array)
getBestExerciseThrows(sts) ==
  \/ Len(sts) = 0
  \/ ThrowsOnCall(Get(ReduceBest(sts, Len(sts)), "weight_progression"))

\* addExecutiveSummary: the two averages are numbers (NaN included), so only
\* getBestExercise can throw
addExecutiveSummaryThrows(sts) == getBestExerciseThrows(sts)

\* addExerciseStats: total_sessions.toString(), average_weight.toFixed(1),
\* weight_progression.toFixed(1), consistency_score.toFixed(1); a
\* total_sessions that is there is a COUNT, never null
addExerciseStatsThrows(stat) ==
  \/ "total_sessions" \notin DOMAIN stat
  \/ ThrowsOnCall(Get(stat, "average_weight"))
  \/ ThrowsOnCall(Get(stat, "weight_progression"))
  \/ ThrowsOnCall(Get(stat, "consistency_score"))

\* PDFReportGenerator.generateReport throws before it returns the document
PDFGenerateReportThrows(sts) ==
  \/ addExecutiveSummaryThrows(sts)
  \/ \E i \in DOMAIN sts : addExerciseStatsThrows(sts[i])

Failed(calls) == \E i \in DOMAIN calls : calls[i].state \in {"error", "throw"}
Succeeded(calls) == \A i \in DOMAIN calls : calls[i].state = "ok"

\* generateReport from the settling of Promise.all to the end of finally
generateReport_resume ==
  /\ report.isGenerating
  /\ report.calls # <<>>
  /\ Failed(report.calls) \/ Succeeded(report.calls)
  /\ IF Failed(report.calls)
       THEN /\ report' = [report EXCEPT !.isGenerating = FALSE, !.calls = <<>>]
            /\ last' = [op |-> "generateReport_resume", queries |-> "failed",
                        alert |-> "Error al generar el reporte. Por favor intenta de nuevo.",
                        download |-> Null]
       ELSE LET statsResults == [i \in DOMAIN report.calls |->
                                   StatOf(report.calls[i], report.exercises)]
            IN /\ report' = [report EXCEPT !.isGenerating = FALSE, !.calls = <<>>,
                                           !.stats = statsResults]
               /\ last' = IF PDFGenerateReportThrows(statsResults)
                   THEN [op |-> "generateReport_resume", queries |-> "succeeded",
                         alert |-> "Error al generar el reporte. Por favor intenta de nuevo.",
                         download |-> Null]
                   ELSE [op |-> "generateReport_resume", queries |-> "succeeded",
                         alert |-> "",
                         download |-> Some(<<"reporte-progreso-",
                                             report.config.start_date.v, "-",
                                             report.config.end_date.v, ".pdf">>)]
  /\ UNCHANGED <<NotReport, issued>>

ReportNext ==
  \/ \E id \in StatExercises : onChange_exercise(id)
  \/ generateReport
  \/ \E i \in 1..Cardinality(StatExercises), outcome \in Outcomes :
       rpc_get_exercise_progress_stats(i, outcome)
  \/ generateReport_resume

ReportSpec == ReportInit /\ [][ReportNext]_vars

\* ------------------------------------------------------- dashboard
\* what can be typed into a name field, and what trim() makes of it
NameTexts == {"", "  ", " Push "}
trim(text) ==
  CASE text = "" -> ""
    [] text = "  " -> ""
    [] text = " Push " -> "Push"
    [] text = " Pull " -> "Pull"
    [] OTHER -> text

\* the page once checkUser has finished: signed in with a profile and no
\* training days yet, or no user at all
DashboardInit ==
  /\ \E u \in {Null, Some("u1")} :
       /\ dashboard = [user |-> u, trainingDays |-> <<>>, showAddDay |-> FALSE,
                       showAddExercise |-> Null, newDayName |-> "",
                       newExercise |-> [name |-> "", sets |-> 3, reps |-> "12"],
                       editingDay |-> Null, editDayName |-> "",
                       editingExercise |-> Null,
                       editExerciseData |-> [name |-> "", sets |-> 3, reps |-> "12"],
                       call |-> Null]
       /\ profiles = IF u = Null THEN <<>>
                     ELSE <<[id |-> u.v, email |-> u.v \o "@example.com"]>>
  /\ training_days = <<>>
  /\ exercises = <<>>
  /\ generated = 0
  /\ workout_sessions = <<>>
  /\ session_exercises = <<>>
  /\ progress_history = <<>>
  /\ currentSession = Null
  /\ sessionExercises = EmptyMap
  /\ isLoading = FALSE
  /\ error = Null
  /\ storage = Null
  /\ inflight = [s \in Slots |-> Idle]
  /\ issued = 0
  /\ stats = Null
  /\ last = [op |-> "init"]
  /\ pdf = Null
  /\ tabs = Null
  /\ trend = Null
  /\ weightInput = Null
  /\ report = Null
  /\ response = Null

NotDashboard == <<remote, store, storage, inflight, stats, trend, weightInput,
                  report, response, pdf, tabs>>

\* the user works in one form at a time: a form is opened, and a row is
\* deleted, while no form is open and no call is in flight
FormsClosed ==
  /\ ~dashboard.showAddDay
  /\ dashboard.showAddExercise = Null
  /\ dashboard.editingDay = Null
  /\ dashboard.editingExercise = Null
  /\ dashboard.call = Null

\* onClick={() => setShowAddDay(true)}
openAddDay ==
  /\ FormsClosed
  /\ dashboard' = [dashboard EXCEPT !.showAddDay = TRUE]
  /\ last' = [op |-> "openAddDay"]
  /\ UNCHANGED <<NotDashboard, catalog, issued>>

\* onChange={(e) => setNewDayName(e.target.value)}
setNewDayName(text) ==
  /\ dashboard.showAddDay
  /\ dashboard.call = Null
  /\ dashboard' = [dashboard EXCEPT !.newDayName = text]
  /\ last' = [op |-> "setNewDayName"]
  /\ UNCHANGED <<NotDashboard, catalog, issued>>

\* onClick={() => setShowAddExercise(day.id)}
openAddExercise(dayId) ==
  /\ dayId \in Ids(dashboard.trainingDays)
  /\ FormsClosed
  /\ dashboard' = [dashboard EXCEPT !.showAddExercise = Some(dayId)]
  /\ last' = [op |-> "openAddExercise"]
  /\ UNCHANGED <<NotDashboard, catalog, issued>>

\* onChange={(e) => setNewExercise({...newExercise, name: e.target.value})}
setNewExercise(text) ==
  /\ dashboard.showAddExercise # Null
  /\ dashboard.call = Null
  /\ dashboard' = [dashboard EXCEPT !.newExercise.name = text]
  /\ last' = [op |-> "setNewExercise"]
  /\ UNCHANGED <<NotDashboard, catalog, issued>>

\* a handler suspended at its await: the request, and the trainingDays and
\* form data its closure holds
Sent(op, verb, table, id, dayId, row, form) ==
  [op |-> op, state |-> "sent", verb |-> verb, table |-> table, id |-> id,
   dayId |-> dayId,
   row |-> row, form |-> form, trainingDays |-> dashboard.trainingDays,
   data |-> Null]

\* if (!newDayName.trim() || !user)
BlankNever(text) == FALSE
Blank(text) == trim(text) = ""

\* addTrainingDay up to its await
addTrainingDay ==
  /\ dashboard.showAddDay
  /\ dashboard.call = Null
  /\ issued < MaxCalls
  /\ IF Blank(dashboard.newDayName) \/ dashboard.user = Null
       THEN /\ last' = [op |-> "addTrainingDay", alert |->
                          "Por favor, ingresa un nombre para el día de entrenamiento."]
            /\ UNCHANGED <<dashboard, issued>>
       ELSE /\ dashboard' = [dashboard EXCEPT !.call =
                 Sent("addTrainingDay", "insert", "training_days", Null, Null,
                      [user_id |-> dashboard.user.v,
                       day_name |-> trim(dashboard.newDayName),
                       day_order |-> Len(dashboard.trainingDays)],
                      Null)]
            /\ issued' = issued + 1
            /\ last' = [op |-> "addTrainingDay", alert |-> ""]
  /\ UNCHANGED <<NotDashboard, catalog>>

\* addExercise(day.id) up to its await
addExercise(dayId) ==
  /\ dashboard.showAddExercise = Some(dayId)
  /\ dashboard.call = Null
  /\ issued < MaxCalls
  /\ IF Blank(dashboard.newExercise.name)
       THEN /\ last' = [op |-> "addExercise", alert |-> ""]
            /\ UNCHANGED <<dashboard, issued>>
       ELSE LET found == {i \in DOMAIN dashboard.trainingDays :
                            dashboard.trainingDays[i].id = dayId}
            IN /\ dashboard' = [dashboard EXCEPT !.call =
                    Sent("addExercise", "insert", "exercises", Null, dayId,
                         [day_id |-> dayId,
                          name |-> trim(dashboard.newExercise.name),
                          sets |-> dashboard.newExercise.sets,
                          reps |-> dashboard.newExercise.reps,
                          order_index |->
                            IF found = {} THEN 0
                            ELSE Len(dashboard.trainingDays[
                                   CHOOSE i \in found : \A j \in found : i <= j
                                 ].exercises)],
                         Null)]
               /\ issued' = issued + 1
               /\ last' = [op |-> "addExercise", alert |-> ""]
  /\ UNCHANGED <<NotDashboard, catalog>>

\* the server runs the insert ... select().single() of the call in flight
dashboard_insert(outcome) ==
  /\ dashboard.call # Null
  /\ dashboard.call.state = "sent"
  /\ dashboard.call.verb = "insert"
  /\ generated < MaxRows
  /\ LET c == dashboard.call
         accepted == /\ outcome = "ok"
                     /\ IF c.op = "addTrainingDay"
                          THEN References(c.row.user_id, profiles)
                          ELSE References(c.row.day_id, training_days)
         row == [id |-> generated + 1] @@ c.row
     IN IF accepted
          THEN /\ IF c.op = "addTrainingDay"
                    THEN /\ training_days' = Append(training_days, row)
                         /\ UNCHANGED exercises
                    ELSE /\ exercises' = Append(exercises, row)
                         /\ UNCHANGED training_days
               /\ generated' = generated + 1
               /\ dashboard' = [dashboard EXCEPT !.call.state = "ok",
                                                 !.call.data = row]
          ELSE /\ UNCHANGED <<training_days, exercises, generated>>
               /\ dashboard' = [dashboard EXCEPT !.call.state =
                                  IF outcome = "ok" THEN "error" ELSE outcome]
  /\ last' = [op |-> "dashboard_insert"]
  /\ UNCHANGED <<NotDashboard, profiles, issued>>

\* addTrainingDay after its await
addTrainingDay_resume ==
  /\ dashboard.call # Null
  /\ dashboard.call.op = "addTrainingDay"
  /\ dashboard.call.state # "sent"
  /\ LET c == dashboard.call
     IN IF c.state = "ok"
          THEN /\ dashboard' = [dashboard EXCEPT
                    !.trainingDays = Append(c.trainingDays,
                                            [exercises |-> <<>>] @@ c.data),
                    !.newDayName = "", !.showAddDay = FALSE, !.call = Null]
               /\ last' = [op |-> "addTrainingDay_resume", alert |->
                             "¡Día de entrenamiento agregado exitosamente!"]
          ELSE /\ dashboard' = [dashboard EXCEPT !.call = Null]
               /\ last' = [op |-> "addTrainingDay_resume", alert |->
                             IF c.state = "error"
                               THEN "Error al agregar el día de entrenamiento: "
                               ELSE ""]
  /\ UNCHANGED <<NotDashboard, catalog, issued>>

\* addExercise after its await
addExercise_resume ==
  /\ dashboard.call # Null
  /\ dashboard.call.op = "addExercise"
  /\ dashboard.call.state # "sent"
  /\ LET c == dashboard.call
     IN IF c.state = "ok"
          THEN dashboard' = [dashboard EXCEPT
                 !.trainingDays = [i \in DOMAIN c.trainingDays |->
                    IF c.trainingDays[i].id = c.row.day_id
                      THEN [c.trainingDays[i] EXCEPT !.exercises = Append(@, c.data)]
                      ELSE c.trainingDays[i]],
                 !.newExercise = [name |-> "", sets |-> 3, reps |-> "12"],
                 !.showAddExercise = Null, !.call = Null]
          ELSE dashboard' = [dashboard EXCEPT !.call = Null]
  /\ last' = [op |-> "addExercise_resume", alert |-> ""]
  /\ UNCHANGED <<NotDashboard, catalog, issued>>

\* what can be typed over the name of a day or an exercise being edited
EditTexts == {"  ", " Pull "}

\* trainingDays.find(d => d.id === dayId)
DayOf(days, dayId) ==
  days[CHOOSE i \in DOMAIN days : days[i].id = dayId /\ \A j \in 1..(i - 1) : days[j].id # dayId]

\* the exercises shown on the page, with the day they are shown under
ShownExercises(days) ==
  UNION {{<<days[i].exercises[j].id, days[i].id>> : j \in DOMAIN days[i].exercises} :
           i \in DOMAIN days}

\* the pencil button of a day: setEditingDay(day.id); setEditDayName(day.day_name)
editDay(dayId) ==
  /\ dayId \in Ids(dashboard.trainingDays)
  /\ FormsClosed
  /\ dashboard' = [dashboard EXCEPT
       !.editingDay = Some(dayId),
       !.editDayName = DayOf(dashboard.trainingDays, dayId).day_name]
  /\ last' = [op |-> "editDay"]
  /\ UNCHANGED <<NotDashboard, catalog, issued>>

\* onChange={(e) => setEditDayName(e.target.value)}
setEditDayName(text) ==
  /\ dashboard.editingDay # Null
  /\ dashboard.call = Null
  /\ dashboard' = [dashboard EXCEPT !.editDayName = text]
  /\ last' = [op |-> "setEditDayName"]
  /\ UNCHANGED <<NotDashboard, catalog, issued>>

\* the pencil button of an exercise
editExercise(exerciseId, dayId) ==
  /\ <<exerciseId, dayId>> \in ShownExercises(dashboard.trainingDays)
  /\ FormsClosed
  /\ LET day == DayOf(dashboard.trainingDays, dayId)
         ex == day.exercises[CHOOSE j \in DOMAIN day.exercises :
                               day.exercises[j].id = exerciseId]
     IN dashboard' = [dashboard EXCEPT
          !.editingExercise = Some(exerciseId),
          !.editExerciseData = [name |-> ex.name, sets |-> ex.sets, reps |-> ex.reps]]
  /\ last' = [op |-> "editExercise"]
  /\ UNCHANGED <<NotDashboard, catalog, issued>>

\* onChange={(e) => setEditExerciseData({...editExerciseData, name: e.target.value})}
setEditExerciseData(text) ==
  /\ dashboard.editingExercise # Null
  /\ dashboard.call = Null
  /\ dashboard' = [dashboard EXCEPT !.editExerciseData.name = text]
  /\ last' = [op |-> "setEditExerciseData"]
  /\ UNCHANGED <<NotDashboard, catalog, issued>>

\* updateTrainingDay(day.id) up to its await
updateTrainingDay(dayId) ==
  /\ dashboard.editingDay = Some(dayId)
  /\ dashboard.call = Null
  /\ issued < MaxCalls
  /\ IF Blank(dashboard.editDayName)
       THEN UNCHANGED <<dashboard, issued>>
       ELSE /\ dashboard' = [dashboard EXCEPT !.call =
                 Sent("updateTrainingDay", "update", "training_days", dayId, dayId,
                      [day_name |-> trim(dashboard.editDayName)],
                      [day_name |-> trim(dashboard.editDayName)])]
            /\ issued' = issued + 1
  /\ last' = [op |-> "updateTrainingDay", alert |-> ""]
  /\ UNCHANGED <<NotDashboard, catalog>>

\* deleteTrainingDay(day.id) up to its await; confirmed is the answer to confirm()
deleteTrainingDay(dayId, confirmed) ==
  /\ dayId \in Ids(dashboard.trainingDays)
  /\ FormsClosed
  /\ issued < MaxCalls
  /\ IF ~confirmed
       THEN UNCHANGED <<dashboard, issued>>
       ELSE /\ dashboard' = [dashboard EXCEPT !.call =
                 Sent("deleteTrainingDay", "delete", "training_days", dayId, dayId,
                      Null, Null)]
            /\ issued' = issued + 1
  /\ last' = [op |-> "deleteTrainingDay", alert |-> ""]
  /\ UNCHANGED <<NotDashboard, catalog>>

\* updateExercise(exercise.id, day.id) up to its await
updateExercise(exerciseId, dayId) ==
  /\ <<exerciseId, dayId>> \in ShownExercises(dashboard.trainingDays)
  /\ dashboard.editingExercise = Some(exerciseId)
  /\ dashboard.call = Null
  /\ issued < MaxCalls
  /\ IF Blank(dashboard.editExerciseData.name)
       THEN UNCHANGED <<dashboard, issued>>
       ELSE /\ dashboard' = [dashboard EXCEPT !.call =
                 Sent("updateExercise", "update", "exercises", exerciseId, dayId,
                      [name |-> trim(dashboard.editExerciseData.name),
                       sets |-> dashboard.editExerciseData.sets,
                       reps |-> dashboard.editExerciseData.reps],
                      dashboard.editExerciseData)]
            /\ issued' = issued + 1
  /\ last' = [op |-> "updateExercise", alert |-> ""]
  /\ UNCHANGED <<NotDashboard, catalog>>

\* deleteExercise(exercise.id, day.id) up to its await
deleteExercise(exerciseId, dayId, confirmed) ==
  /\ <<exerciseId, dayId>> \in ShownExercises(dashboard.trainingDays)
  /\ FormsClosed
  /\ issued < MaxCalls
  /\ IF ~confirmed
       THEN UNCHANGED <<dashboard, issued>>
       ELSE /\ dashboard' = [dashboard EXCEPT !.call =
                 Sent("deleteExercise", "delete", "exercises", exerciseId, dayId,
                      Null, Null)]
            /\ issued' = issued + 1
  /\ last' = [op |-> "deleteExercise", alert |-> ""]
  /\ UNCHANGED <<NotDashboard, catalog>>

\* UPDATE table SET row WHERE id = id
Updated(rows, id, row) ==
  [i \in DOMAIN rows |-> IF rows[i].id = id THEN Spread(rows[i], row) ELSE rows[i]]

\* the server runs the update ... eq('id', id) of the call in flight
dashboard_update(outcome) ==
  /\ dashboard.call # Null
  /\ dashboard.call.state = "sent"
  /\ dashboard.call.verb = "update"
  /\ LET c == dashboard.call
     IN /\ IF outcome = "ok"
             THEN IF c.table = "training_days"
                    THEN /\ training_days' = Updated(training_days, c.id, c.row)
                         /\ UNCHANGED exercises
                    ELSE /\ exercises' = Updated(exercises, c.id, c.row)
                         /\ UNCHANGED training_days
             ELSE UNCHANGED <<training_days, exercises>>
        /\ dashboard' = [dashboard EXCEPT !.call.state = outcome]
  /\ last' = [op |-> "dashboard_update"]
  /\ UNCHANGED <<NotDashboard, profiles, generated, issued>>

\* the server runs the delete ... eq('id', id) of the call in flight, and the
\* cascade below the table
dashboard_delete(outcome) ==
  /\ dashboard.call # Null
  /\ dashboard.call.state = "sent"
  /\ dashboard.call.verb = "delete"
  /\ UNCHANGED <<profiles, generated, issued, store, storage, inflight, stats,
                 trend, weightInput, report, response, pdf, tabs>>
  /\ LET c == dashboard.call
     IN IF outcome = "ok"
          THEN IF c.table = "training_days"
                 THEN /\ training_days' = SelectSeq(training_days, LAMBDA r : r.id # c.id)
                      /\ CascadeBelowDays
                 ELSE /\ exercises' = SelectSeq(exercises, LAMBDA r : r.id # c.id)
                      /\ UNCHANGED <<training_days, workout_sessions>>
                      /\ CascadeBelowExercises
          ELSE UNCHANGED <<training_days, exercises, remote>>
  /\ dashboard' = [dashboard EXCEPT !.call.state = outcome]
  /\ last' = [op |-> "dashboard_delete"]

\* if (error) throw error, or the await rejects: the catch logs and returns
ThrownOnlyWhenRejected(c) == c.state = "throw"
Thrown(c) == c.state # "ok"

\* the trainingDays each handler sets once its call has succeeded
AfterUpdateTrainingDay(c) ==
  [i \in DOMAIN c.trainingDays |->
     IF c.trainingDays[i].id = c.id
       THEN Spread(c.trainingDays[i], c.form) ELSE c.trainingDays[i]]
AfterDeleteTrainingDay(c) ==
  SelectSeq(c.trainingDays, LAMBDA day : day.id # c.id)
AfterUpdateExercise(c) ==
  [i \in DOMAIN c.trainingDays |->
     IF c.trainingDays[i].id = c.dayId
       THEN [c.trainingDays[i] EXCEPT !.exercises =
               [j \in DOMAIN @ |-> IF @[j].id = c.id THEN Spread(@[j], c.form) ELSE @[j]]]
       ELSE c.trainingDays[i]]
AfterDeleteExercise(c) ==
  [i \in DOMAIN c.trainingDays |->
     IF c.trainingDays[i].id = c.dayId
       THEN [c.trainingDays[i] EXCEPT !.exercises =
               SelectSeq(@, LAMBDA ex : ex.id # c.id)]
       ELSE c.trainingDays[i]]

\* updateTrainingDay after its await
updateTrainingDay_resume ==
  /\ dashboard.call # Null
  /\ dashboard.call.op = "updateTrainingDay"
  /\ dashboard.call.state # "sent"
  /\ IF Thrown(dashboard.call)
       THEN dashboard' = [dashboard EXCEPT !.call = Null]
       ELSE dashboard' = [dashboard EXCEPT
              !.trainingDays = AfterUpdateTrainingDay(dashboard.call),
              !.editingDay = Null, !.editDayName = "", !.call = Null]
  /\ last' = [op |-> "updateTrainingDay_resume", alert |-> ""]
  /\ UNCHANGED <<NotDashboard, catalog, issued>>

\* deleteTrainingDay after its await
deleteTrainingDay_resume ==
  /\ dashboard.call # Null
  /\ dashboard.call.op = "deleteTrainingDay"
  /\ dashboard.call.state # "sent"
  /\ IF Thrown(dashboard.call)
       THEN dashboard' = [dashboard EXCEPT !.call = Null]
       ELSE dashboard' = [dashboard EXCEPT
              !.trainingDays = AfterDeleteTrainingDay(dashboard.call), !.call = Null]
  /\ last' = [op |-> "deleteTrainingDay_resume", alert |-> ""]
  /\ UNCHANGED <<NotDashboard, catalog, issued>>

\* updateExercise after its await
updateExercise_resume ==
  /\ dashboard.call # Null
  /\ dashboard.call.op = "updateExercise"
  /\ dashboard.call.state # "sent"
  /\ IF Thrown(dashboard.call)
       THEN dashboard' = [dashboard EXCEPT !.call = Null]
       ELSE dashboard' = [dashboard EXCEPT
              !.trainingDays = AfterUpdateExercise(dashboard.call),
              !.editingExercise = Null,
              !.editExerciseData = [name |-> "", sets |-> 3, reps |-> "12"],
              !.call = Null]
  /\ last' = [op |-> "updateExercise_resume", alert |-> ""]
  /\ UNCHANGED <<NotDashboard, catalog, issued>>

\* deleteExercise after its await
deleteExercise_resume ==
  /\ dashboard.call # Null
  /\ dashboard.call.op = "deleteExercise"
  /\ dashboard.call.state # "sent"
  /\ IF Thrown(dashboard.call)
       THEN dashboard' = [dashboard EXCEPT !.call = Null]
       ELSE dashboard' = [dashboard EXCEPT
              !.trainingDays = AfterDeleteExercise(dashboard.call), !.call = Null]
  /\ last' = [op |-> "deleteExercise_resume", alert |-> ""]
  /\ UNCHANGED <<NotDashboard, catalog, issued>>

\* the cancel button of each form
cancelAddDay ==
  /\ dashboard.showAddDay
  /\ dashboard.call = Null
  /\ dashboard' = [dashboard EXCEPT !.showAddDay = FALSE, !.newDayName = ""]
  /\ last' = [op |-> "cancelAddDay"]
  /\ UNCHANGED <<NotDashboard, catalog, issued>>

cancelAddExercise ==
  /\ dashboard.showAddExercise # Null
  /\ dashboard.call = Null
  /\ dashboard' = [dashboard EXCEPT !.showAddExercise = Null,
                     !.newExercise = [name |-> "", sets |-> 3, reps |-> "12"]]
  /\ last' = [op |-> "cancelAddExercise"]
  /\ UNCHANGED <<NotDashboard, catalog, issued>>

cancelEditDay ==
  /\ dashboard.editingDay # Null
  /\ dashboard.call = Null
  /\ dashboard' = [dashboard EXCEPT !.editingDay = Null, !.editDayName = ""]
  /\ last' = [op |-> "cancelEditDay"]
  /\ UNCHANGED <<NotDashboard, catalog, issued>>

cancelEditExercise ==
  /\ dashboard.editingExercise # Null
  /\ dashboard.call = Null
  /\ dashboard' = [dashboard EXCEPT !.editingExercise = Null,
                     !.editExerciseData = [name |-> "", sets |-> 3, reps |-> "12"]]
  /\ last' = [op |-> "cancelEditExercise"]
  /\ UNCHANGED <<NotDashboard, catalog, issued>>

DashboardNext ==
  \/ openAddDay
  \/ \E text \in NameTexts : setNewDayName(text)
  \/ \E dayId \in Ids(dashboard.trainingDays) : openAddExercise(dayId)
  \/ \E text \in NameTexts : setNewExercise(text)
  \/ addTrainingDay
  \/ \E dayId \in Ids(dashboard.trainingDays) : addExercise(dayId)
  \/ \E outcome \in Outcomes : dashboard_insert(outcome)
  \/ addTrainingDay_resume
  \/ addExercise_resume
  \/ \E dayId \in Ids(dashboard.trainingDays) : editDay(dayId)
  \/ \E text \in EditTexts : setEditDayName(text)
  \/ \E dayId \in Ids(dashboard.trainingDays) : updateTrainingDay(dayId)
  \/ \E dayId \in Ids(dashboard.trainingDays), confirmed \in BOOLEAN :
       deleteTrainingDay(dayId, confirmed)
  \/ \E p \in ShownExercises(dashboard.trainingDays) : editExercise(p[1], p[2])
  \/ \E text \in EditTexts : setEditExerciseData(text)
  \/ \E p \in ShownExercises(dashboard.trainingDays) : updateExercise(p[1], p[2])
  \/ \E p \in ShownExercises(dashboard.trainingDays), confirmed \in BOOLEAN :
       deleteExercise(p[1], p[2], confirmed)
  \/ \E outcome \in Outcomes : dashboard_update(outcome)
  \/ \E outcome \in Outcomes : dashboard_delete(outcome)
  \/ updateTrainingDay_resume
  \/ deleteTrainingDay_resume
  \/ updateExercise_resume
  \/ deleteExercise_resume
  \/ cancelAddDay
  \/ cancelAddExercise
  \/ cancelEditDay
  \/ cancelEditExercise

DashboardSpec == DashboardInit /\ [][DashboardNext]_vars

\* ------------------------------------------------------- progress-history endpoint
\* searchParams.get('exerciseId'): null when the parameter is missing
ExerciseIdParams == {Null, Some(""), Some("e1"), Some("e2")}

\* a request reaches the route with the tables in any of these states
EndpointInit ==
  /\ progress_history \in ReportTables
  /\ exercises \in {<<>>, <<[id |-> "e1", day_id |-> 1, name |-> "Press banca",
                            sets |-> 3, reps |-> "12", order_index |-> 0]>>}
  /\ profiles = <<>>
  /\ training_days = <<>>
  /\ generated = 0
  /\ workout_sessions = <<>>
  /\ session_exercises = <<>>
  /\ currentSession = Null
  /\ sessionExercises = EmptyMap
  /\ isLoading = FALSE
  /\ error = Null
  /\ storage = Null
  /\ inflight = [s \in Slots |-> Idle]
  /\ issued = 0
  /\ stats = Null
  /\ last = [op |-> "init"]
  /\ pdf = Null
  /\ tabs = Null
  /\ trend = Null
  /\ weightInput = Null
  /\ report = Null
  /\ dashboard = Null
  /\ response = [status |-> 0, body |-> Null, queries |-> 0]

\* if (!exerciseId): null and the empty string
Missing(exerciseId) == exerciseId = Null \/ exerciseId = Some("")

\* GET /api/progress-history?exerciseId=...; history and exercise are the
\* outcomes of its two queries
GET(exerciseId, history, exercise) ==
  /\ issued < MaxCalls
  /\ IF Missing(exerciseId)
       THEN /\ response' = [status |-> 400,
                            body |-> [error |-> "Exercise ID is required"],
                            queries |-> 0]
            /\ UNCHANGED issued
       ELSE LET progressHistory ==
                  SelectSeq(progress_history, LAMBDA r : r.exercise_id = exerciseId.v)
                found == SelectSeq(exercises, LAMBDA r : r.id = exerciseId.v)
            IN IF history # "ok"
                 THEN /\ response' = [status |-> 500,
                                      body |-> [error |-> "Failed to fetch progress history"],
                                      queries |-> 1]
                      /\ issued' = issued + 1
                 ELSE /\ issued' = issued + 1
                      \* .single() is an error unless exactly one row is found
                      /\ response' =
                           IF exercise = "ok" /\ Len(found) = 1
                             THEN [status |-> 200,
                                   body |-> [exercise |-> [name |-> found[1].name],
                                             progressHistory |-> progressHistory],
                                   queries |-> 2]
                             ELSE [status |-> 500,
                                   body |-> [error |-> "Failed to fetch progress history"],
                                   queries |-> 2]
  /\ last' = [op |-> "GET", exerciseId |-> exerciseId]
  /\ UNCHANGED <<remote, store, storage, inflight, stats, catalog, trend,
                 weightInput, report, dashboard, pdf, tabs>>

EndpointNext ==
  \E exerciseId \in ExerciseIdParams, history \in Outcomes, exercise \in Outcomes :
    GET(exerciseId, history, exercise)

\* ------------------------------------------------------- input boundaries
\* one of the four places where user input enters the program: the weight
\* input of a set, the report generator, the dashboard, or a request to the
\* progress-history endpoint
BoundaryInit == InputInit \/ ReportInit \/ DashboardInit \/ EndpointInit

BoundaryNext ==
  \/ weightInput # Null /\ InputNext
  \/ report # Null /\ ReportNext
  \/ dashboard # Null /\ DashboardNext
  \/ response # Null /\ EndpointNext

BoundarySpec == BoundaryInit /\ [][BoundaryNext]_vars

\* ------------------------------------------------------- PDF report
\* jsPDF('p', 'mm', 'a4'), and the height an image of a chart takes
pageHeight == 297
pageWidth == 210
margin == 20
imgHeight == 85

\* a row with every property the generator reads (the ProgressStats
\* properties and consistency_score), a row as the ProgressStats type
\* declares it, and a row as the statistics function returns it
CompleteStat(id) ==
  [exercise_id |-> id, exercise_name |-> "Press banca", total_sessions |-> 2,
   max_weight |-> Dec(70), min_weight |-> Dec(60), average_weight |-> Dec(65),
   latest_weight |-> Dec(70), weight_progression |-> Dec(10),
   consistency_score |-> Dec(80)]
ProgressStat(id) ==
  [exercise_id |-> id, exercise_name |-> "Press banca", total_sessions |-> 2,
   max_weight |-> Dec(70), min_weight |-> Dec(60), average_weight |-> Dec(65),
   latest_weight |-> Dec(70), weight_progression |-> Dec(10)]
ReturnedStat(id) ==
  [exercise_id |-> id, exercise_name |-> "Press banca", total_sessions |-> 2,
   max_weight |-> Dec(70), min_weight |-> Dec(60), avg_weight |-> Dec(65),
   latest_weight |-> Dec(70), weight_progression |-> Dec(10)]

\* new PDFReportGenerator(), about to be given a config, stats and the chart
\* elements (undefined when charts are not wanted)
PdfInit ==
  /\ StoreInit
  /\ trend = Null
  /\ weightInput = Null
  /\ report = Null
  /\ dashboard = Null
  /\ response = Null
  /\ tabs = Null
  /\ \E include_charts \in BOOLEAN,
        sts \in {<<CompleteStat("e1")>>, <<CompleteStat("e1"), CompleteStat("e2")>>,
                 <<CompleteStat("e1"), CompleteStat("e2"), CompleteStat("e1")>>,
                 <<ProgressStat("e1")>>, <<ReturnedStat("e1")>>},
        n \in 0..MaxCharts, given \in BOOLEAN :
       pdf = [config |-> [include_charts |-> include_charts],
              stats |-> sts,
              chartElements |-> IF given THEN Some(n) ELSE Undefined,
              phase |-> "new", currentY |-> 20, pages |-> 1, next |-> 1,
              captures |-> <<>>, images |-> <<>>, footers |-> {}]

NotPdf == <<remote, store, storage, inflight, issued, stats, catalog, trend,
            weightInput, report, dashboard, response, tabs>>

\* checkPageBreak(requiredSpace)
checkPageBreak(p, requiredSpace) ==
  IF p.currentY + requiredSpace > pageHeight - 30
    THEN [p EXCEPT !.pages = @ + 1, !.currentY = 20]
    ELSE p

Down(p, mm) == [p EXCEPT !.currentY = @ + mm]

\* for (const stat of stats) { checkPageBreak(60); addExerciseStats(stat) }
RECURSIVE AfterExerciseStats(_, _)
AfterExerciseStats(p, k) ==
  IF k = 0 THEN p
  ELSE Down(checkPageBreak(AfterExerciseStats(p, k - 1), 60), 12 + 7 * 6 + 10)

\* addFooter: a footer on each of the pages
addFooter(p) == [p EXCEPT !.footers = 1..p.pages]

\* return new Blob(...)
ReturnedDocument(p) == [addFooter(p) EXCEPT !.phase = "returned"]

\* generateReport(config, stats, chartElements) up to the first capture of a
\* chart, or to its end when there are no charts to add
PDFReportGenerator_generateReport ==
  /\ pdf.phase = "new"
  /\ LET header == Down(pdf, 15 + 10 + 20 + 15)
         summary == Down(header, 15 + 5 * 8 + 15)
         listed == AfterExerciseStats(summary, Len(pdf.stats))
     IN pdf' =
          IF PDFGenerateReportThrows(pdf.stats)
            THEN [pdf EXCEPT !.phase = "thrown"]
            ELSE IF pdf.config.include_charts /\ pdf.chartElements # Undefined
              THEN [Down(checkPageBreak(listed, 100), 20) EXCEPT !.phase = "charts"]
              ELSE ReturnedDocument(listed)
  /\ last' = [op |-> "PDFReportGenerator_generateReport"]
  /\ UNCHANGED NotPdf

\* catch (error) { console.error(...) }: on to the next element
SkippedFatally(p) == [p EXCEPT !.phase = "thrown"]
Skipped(p) == [p EXCEPT !.next = @ + 1]

\* one turn of the loop of addCharts: checkPageBreak(120), then the capture
\* of the element settles
html2canvas(outcome) ==
  /\ pdf.phase = "charts"
  /\ pdf.next <= pdf.chartElements.v
  /\ LET p == [checkPageBreak(pdf, 120) EXCEPT !.captures = Append(@, outcome)]
     IN pdf' = IF outcome = "ok"
                 THEN [Down(p, imgHeight + 15) EXCEPT
                         !.images = Append(@, [element |-> p.next, page |-> p.pages,
                                               y |-> p.currentY]),
                         !.next = @ + 1]
                 ELSE Skipped(p)
  /\ last' = [op |-> "html2canvas", outcome |-> outcome]
  /\ UNCHANGED NotPdf

\* the loop of addCharts is over: addFooter and return
PDFReportGenerator_return ==
  /\ pdf.phase = "charts"
  /\ pdf.next > pdf.chartElements.v
  /\ pdf' = ReturnedDocument(pdf)
  /\ last' = [op |-> "PDFReportGenerator_return"]
  /\ UNCHANGED NotPdf

PdfNext ==
  \/ PDFReportGenerator_generateReport
  \/ \E outcome \in {"ok", "throw"} : html2canvas(outcome)
  \/ PDFReportGenerator_return

PdfSpec == PdfInit /\ [][PdfNext]_vars

\* a capture that was started settles, and the code after an await runs
PdfFairSpec == PdfSpec /\ WF_vars(PdfNext)

\* ------------------------------------------------------- sign-in
\* Two tabs of one browser open the dashboard; the session in the browser is
\* that of the user "u1" or there is none.
Tabs == {1, 2}

ProfileOf(u) == [id |-> u, email |-> u \o "@example.com"]

\* the trigger on_auth_user_created has given the user a profile, or the
\* user was registered before the trigger existed
SignInInit ==
  /\ workout_sessions = <<>>
  /\ session_exercises = <<>>
  /\ progress_history = <<>>
  /\ profiles \in {<<>>, <<ProfileOf("u1")>>}
  /\ training_days = <<>>
  /\ exercises = <<>>
  /\ generated = 0
  /\ currentSession = Null
  /\ sessionExercises = EmptyMap
  /\ isLoading = FALSE
  /\ error = Null
  /\ storage = Null
  /\ inflight = [s \in Slots |-> Idle]
  /\ issued = 0
  /\ stats = Null
  /\ last = [op |-> "init"]
  /\ trend = Null
  /\ weightInput = Null
  /\ report = Null
  /\ dashboard = Null
  /\ response = Null
  /\ pdf = Null
  /\ tabs = [t \in Tabs |-> [phase |-> "mounted", authUser |-> Null, user |-> Null,
                             loading |-> TRUE, res |-> Null, alert |-> "",
                             inserts |-> 0]]

NotTabs == <<remote, store, storage, inflight, stats, training_days, exercises,
             generated, trend, weightInput, report, dashboard, response, pdf>>

\* checkUser up to the first await of ensureUserProfile: getUser() has
\* answered with the user of the session, or with none
checkUser(t, authUser) ==
  /\ tabs[t].phase = "mounted"
  /\ issued < MaxCalls
  /\ IF authUser = Null
       THEN /\ tabs' = [tabs EXCEPT ![t].phase = "login", ![t].loading = FALSE]
            /\ UNCHANGED issued
       ELSE /\ tabs' = [tabs EXCEPT ![t].phase = "select sent",
                                    ![t].authUser = authUser]
            /\ issued' = issued + 1
  /\ last' = [op |-> "checkUser", tab |-> t]
  /\ UNCHANGED <<NotTabs, profiles>>

\* the server runs select('id, username').eq('id', user.id).single(): no row
\* is the error PGRST116
profiles_select(t, outcome) ==
  /\ tabs[t].phase = "select sent"
  /\ LET found == SelectSeq(profiles, LAMBDA r : r.id = tabs[t].authUser.v)
     IN tabs' = [tabs EXCEPT ![t].phase = "select replied",
          ![t].res = IF outcome = "throw" THEN [outcome |-> "throw", code |-> ""]
                     ELSE IF outcome = "error" THEN [outcome |-> "error", code |-> "other"]
                     ELSE IF Len(found) = 0 THEN [outcome |-> "error", code |-> "PGRST116"]
                     ELSE [outcome |-> "ok", code |-> ""]]
  /\ last' = [op |-> "profiles_select", tab |-> t]
  /\ UNCHANGED <<NotTabs, profiles, issued>>

\* catch of checkUser: router.push('/auth/login'); finally setLoading(false)
Rejected(tab, alert) ==
  [tab EXCEPT !.phase = "login", !.loading = FALSE, !.alert = alert, !.res = Null]

\* setUser(user); await fetchTrainingDays(user.id); finally setLoading(false)
Accepted(tab) ==
  [tab EXCEPT !.phase = "dashboard", !.user = tab.authUser, !.loading = FALSE,
              !.res = Null]

\* if (checkError && checkError.code === 'PGRST116')
ProfileMissing(res) == res.outcome = "error" /\ res.code = "PGRST116"

\* ensureUserProfile after the select: insert the profile when there is none
ensureUserProfile_resume(t) ==
  /\ tabs[t].phase = "select replied"
  /\ IF tabs[t].res.outcome = "throw"
       THEN tabs' = [tabs EXCEPT ![t] = Rejected(@, "")]
       ELSE IF ProfileMissing(tabs[t].res)
         THEN tabs' = [tabs EXCEPT ![t].phase = "insert sent", ![t].res = Null,
                                   ![t].inserts = @ + 1]
         ELSE IF tabs[t].res.outcome = "error"
           THEN tabs' = [tabs EXCEPT ![t] =
                           Rejected(@, "Error al verificar el perfil de usuario.")]
           ELSE tabs' = [tabs EXCEPT ![t] = Accepted(@)]
  /\ last' = [op |-> "ensureUserProfile_resume", tab |-> t]
  /\ UNCHANGED <<NotTabs, profiles, issued>>

\* the server runs the insert into profiles: id is the primary key
profiles_insert_served(t, outcome) ==
  /\ tabs[t].phase = "insert sent"
  /\ LET u == tabs[t].authUser.v
     IN IF outcome # "ok"
          THEN /\ tabs' = [tabs EXCEPT ![t].phase = "insert replied",
                             ![t].res = [outcome |-> outcome, code |-> "other"]]
               /\ UNCHANGED profiles
          ELSE IF u \in Ids(profiles)
            THEN /\ tabs' = [tabs EXCEPT ![t].phase = "insert replied",
                               ![t].res = [outcome |-> "error", code |-> "23505"]]
                 /\ UNCHANGED profiles
            ELSE /\ tabs' = [tabs EXCEPT ![t].phase = "insert replied",
                               ![t].res = [outcome |-> "ok", code |-> ""]]
                 /\ profiles' = Append(profiles, ProfileOf(u))
  /\ last' = [op |-> "profiles_insert_served", tab |-> t]
  /\ UNCHANGED <<NotTabs, issued>>

\* ensureUserProfile after the insert
ensureUserProfile_inserted(t) ==
  /\ tabs[t].phase = "insert replied"
  /\ tabs' = [tabs EXCEPT ![t] =
       IF tabs[t].res.outcome = "throw" THEN Rejected(@, "")
       ELSE IF tabs[t].res.outcome = "error"
         THEN Rejected(@, "Error al crear el perfil de usuario. Por favor, intenta de nuevo.")
         ELSE Accepted(@)]
  /\ last' = [op |-> "ensureUserProfile_inserted", tab |-> t,
              res |-> tabs[t].res]
  /\ UNCHANGED <<NotTabs, profiles, issued>>

\* the tab is opened again
reopen(t) ==
  /\ tabs[t].phase \in {"login", "dashboard"}
  /\ issued < MaxCalls
  /\ tabs' = [tabs EXCEPT ![t] = [phase |-> "mounted", authUser |-> Null,
                                  user |-> Null, loading |-> TRUE, res |-> Null,
                                  alert |-> "", inserts |-> 0]]
  /\ last' = [op |-> "reopen", tab |-> t]
  /\ UNCHANGED <<NotTabs, profiles, issued>>

SignInNext ==
  \E t \in Tabs :
    \/ \E authUser \in {Null, Some("u1")} : checkUser(t, authUser)
    \/ \E outcome \in Outcomes : profiles_select(t, outcome)
    \/ ensureUserProfile_resume(t)
    \/ \E outcome \in Outcomes : profiles_insert_served(t, outcome)
    \/ ensureUserProfile_inserted(t)
    \/ reopen(t)

SignInSpec == SignInInit /\ [][SignInNext]_vars

\* ======================================================= properties
\* the call a server or resume step acts on, as it was before the step
Call == inflight[last'.slot]

SessionRow(id) == CHOOSE r \in {workout_sessions[i] : i \in DOMAIN workout_sessions} : r.id = id

\* the cache keys whose entry has a recorded weight above zero
WeightedKeys(m) == {k \in DOMAIN m.val : m.val[k].weight_used > 0}

\* C1: when the remote progress-history write of recordWeight fails, the
\* sessionExercises cache is what it was before the call and the error
\* field is set.
C1_FailedRecordWeightLeavesCache ==
  [][(last'.op = "recordWeight_resume" /\ Call.res.outcome # "ok")
       => (sessionExercises' = sessionExercises /\ error' # Null)]_vars

\* C2: when the bulk write of SessionExercise rows fails, the error field is
\* set, currentSession is still the same session and sessionExercises still
\* holds the same entries.
C2_FailedBulkWriteLeavesCache ==
  [][(last'.op = "completeWorkoutSession_finish" /\ Call.res.outcome # "ok")
       => /\ error' # Null
          /\ currentSession' = currentSession
          /\ sessionExercises' = sessionExercises]_vars

\* C3: completeWorkoutSession first sets completed_at on the remote session,
\* then inserts exactly the cached entries whose weight_used is above zero,
\* and only then clears the cache (currentSession null, sessionExercises
\* empty).
C3_CompleteOrderAndRows ==
  [][/\ (last'.op = "update_workout_sessions" /\ inflight'[last'.slot].res.outcome = "ok")
          => /\ Call.req.id = currentSession.id
             /\ SessionRow(currentSession.id).completed_at = Null
                  => workout_sessions'[currentSession.id].completed_at # Null
             /\ \A i \in DOMAIN workout_sessions :
                  workout_sessions[i].id # currentSession.id
                    => workout_sessions'[i] = workout_sessions[i]
             /\ session_exercises' = session_exercises
             /\ UNCHANGED store
     /\ (last'.op = "completeWorkoutSession_resume" /\ Call.res.outcome = "ok")
          => IF WeightedKeys(sessionExercises) = {}
               THEN /\ inflight'[last'.slot] = Idle
                    /\ currentSession' = Null
                    /\ sessionExercises' = EmptyMap
               ELSE /\ inflight'[last'.slot].req.table = "session_exercises"
                    /\ UNCHANGED store
     /\ (last'.op = "insert_session_exercises" /\ inflight'[last'.slot].res.outcome = "ok")
          => LET n == Len(session_exercises)
                 added == SubSeq(session_exercises', n + 1, Len(session_exercises'))
             IN /\ SubSeq(session_exercises', 1, n) = session_exercises
                /\ Len(added) = Cardinality(WeightedKeys(sessionExercises))
                /\ {added[i] : i \in DOMAIN added} =
                     {sessionExercises.val[k] : k \in WeightedKeys(sessionExercises)}
                /\ currentSession # Null
                /\ UNCHANGED store
     /\ (last'.op = "completeWorkoutSession_finish" /\ Call.res.outcome = "ok")
          => /\ currentSession' = Null
             /\ sessionExercises' = EmptyMap
             /\ UNCHANGED remote]_vars

\* C3 witness: the bulk insert of a completed session has written the one
\* weighted entry of a cache that also holds a zero-weight entry.
C3_Witness ==
  /\ last.op = "insert_session_exercises"
  /\ inflight[last.slot].res.outcome = "ok"
  /\ currentSession # Null
  /\ SessionRow(currentSession.id).completed_at # Null
  /\ Len(sessionExercises.keys) = 2
  /\ Cardinality(WeightedKeys(sessionExercises)) = 1
  /\ Len(session_exercises) = 1

\* C4: the remote store never holds more than one WorkoutSession with
\* completed_at unset for the same TrainingDay.
C4_OneOpenSessionPerDay ==
  \A d \in Days : Cardinality(OpenSessions(d)) <= 1

\* C5: startWorkoutSession issues one remote insert of a session for dayId;
\* when it fails the error field is set, isLoading is false and
\* currentSession is unchanged; when it succeeds currentSession is the
\* created remote session, error is null and isLoading is false.
C5_StartSession ==
  [][/\ last'.op = "startWorkoutSession"
          => /\ inflight[last'.slot] = Idle
             /\ inflight'[last'.slot].req.verb = "insert"
             /\ inflight'[last'.slot].req.table = "workout_sessions"
             /\ Len(inflight'[last'.slot].req.rows) = 1
             /\ \A t \in Slots \ {last'.slot} : inflight'[t] = inflight[t]
     /\ (last'.op = "insert_workout_sessions" /\ inflight'[last'.slot].res.outcome = "ok")
          => /\ Len(workout_sessions') = Len(workout_sessions) + 1
             /\ workout_sessions'[Len(workout_sessions')].day_id = Call.dayId
     /\ last'.op = "startWorkoutSession_resume"
          => /\ inflight'[last'.slot] = Idle
             /\ isLoading' = FALSE
             /\ UNCHANGED remote
             /\ IF Call.res.outcome = "ok"
                  THEN /\ currentSession' = workout_sessions[Len(workout_sessions)]
                       /\ currentSession'.day_id = Call.dayId
                       /\ error' = Null
                  ELSE /\ error' # Null
                       /\ currentSession' = currentSession]_vars

\* C5 witness: a start whose insert failed has surfaced the error and
\* cached no session.
C5_Witness ==
  /\ last.op = "startWorkoutSession_resume"
  /\ error # Null
  /\ currentSession = Null
  /\ ~isLoading

\* C6: a successful recordWeight appends exactly one ProgressHistory row
\* (exerciseId, weight) and then sets the cache entry keyed
\* (exerciseId, setIndex) to weight_used = weight, session_id = the current
\* session's id, sets_completed = previous sets_completed (0 when absent)
\* plus one; every other cache entry is unchanged.
C6_RecordWeight ==
  [][/\ last'.op = "recordWeight" => UNCHANGED <<remote, store>>
     /\ (last'.op = "insert_progress_history" /\ inflight'[last'.slot].res.outcome = "ok")
          => /\ Len(progress_history') = Len(progress_history) + 1
             /\ SubSeq(progress_history', 1, Len(progress_history)) = progress_history
             /\ progress_history'[Len(progress_history')].exercise_id = Call.exerciseId
             /\ progress_history'[Len(progress_history')].weight = Call.weight
             /\ UNCHANGED <<workout_sessions, session_exercises, store>>
     /\ (last'.op = "recordWeight_resume" /\ Call.res.outcome = "ok")
          => LET key == Key(Call.exerciseId, Call.setIndex)
                 before == IF key \in DOMAIN sessionExercises.val
                             THEN sessionExercises.val[key].sets_completed ELSE 0
             IN /\ UNCHANGED remote
                /\ DOMAIN sessionExercises'.val = (DOMAIN sessionExercises.val) \cup {key}
                /\ sessionExercises'.val[key].exercise_id = Call.exerciseId
                /\ sessionExercises'.val[key].weight_used = Call.weight
                /\ sessionExercises'.val[key].session_id = currentSession.id
                /\ sessionExercises'.val[key].sets_completed = before + 1
                /\ \A k \in (DOMAIN sessionExercises.val) \ {key} :
                     sessionExercises'.val[k] = sessionExercises.val[k]
                /\ UNCHANGED <<currentSession, isLoading, error>>]_vars

\* C6 witness: a second successful recordWeight on the same set has raised
\* its sets_completed to 2 next to an untouched entry or after a first one.
C6_Witness ==
  /\ last.op = "recordWeight_resume"
  /\ Len(progress_history) = 2
  /\ \E k \in DOMAIN sessionExercises.val : sessionExercises.val[k].sets_completed = 2

\* C7: completeSet issues no remote call and changes nothing remote; it
\* changes only reps_completed of the cache entry keyed
\* (exerciseId, setIndex), and leaves the cache alone when there is no such
\* entry.
C7_CompleteSetLocalOnly ==
  [][last'.op = "completeSet"
       => /\ UNCHANGED remote
          /\ inflight' = inflight
          /\ UNCHANGED <<currentSession, isLoading, error>>
          /\ IF last'.key \in DOMAIN sessionExercises.val
               THEN /\ sessionExercises'.keys = sessionExercises.keys
                    /\ DOMAIN sessionExercises'.val = DOMAIN sessionExercises.val
                    /\ \A k \in (DOMAIN sessionExercises.val) \ {last'.key} :
                         sessionExercises'.val[k] = sessionExercises.val[k]
                    /\ \A f \in (DOMAIN sessionExercises.val[last'.key]) \ {"reps_completed"} :
                         sessionExercises'.val[last'.key][f] = sessionExercises.val[last'.key][f]
                    /\ (DOMAIN sessionExercises'.val[last'.key]) =
                         (DOMAIN sessionExercises.val[last'.key]) \cup {"reps_completed"}
               ELSE sessionExercises' = sessionExercises]_vars

\* C7 witness: completeSet has annotated an existing entry with its reps.
C7_Witness ==
  /\ last.op = "completeSet"
  /\ last.key \in DOMAIN sessionExercises.val
  /\ "reps_completed" \in DOMAIN sessionExercises.val[last.key]
  /\ Len(sessionExercises.keys) = 2

\* C8: in every reachable state, writing the session cache to local storage
\* (partialize) and rebuilding it on load (rehydrate) gives the same
\* currentSession and a sessionExercises map with the same keys, in the same
\* order, holding the same entries; and the item in local storage is the one
\* that rebuilds the store's current cache, so a page reload keeps it.
C8_RoundTrip ==
  /\ LET loaded == Rehydrate(Stored(currentSession, sessionExercises))
     IN /\ loaded.currentSession = currentSession
        /\ loaded.sessionExercises = sessionExercises
  /\ storage # Null =>
       /\ Rehydrate(storage).currentSession = currentSession
       /\ Rehydrate(storage).sessionExercises = sessionExercises

\* C8 witness: a session with two cached entries has come back from a reload.
C8_Witness ==
  /\ last.op = "Reload"
  /\ currentSession # Null
  /\ Len(sessionExercises.keys) = 2
  /\ \E k \in DOMAIN sessionExercises.val : "reps_completed" \in DOMAIN sessionExercises.val[k]

\* the observations the last statistics call ranges over
Observed ==
  {i \in DOMAIN progress_history :
     /\ progress_history[i].exercise_id = stats.p_exercise_id
     /\ stats.p_start_date # Null => progress_history[i].created_at >= stats.p_start_date.v
     /\ stats.p_end_date # Null => progress_history[i].created_at <= stats.p_end_date.v}

Returned == stats # Null /\ "error" \notin DOMAIN stats.result

\* C9: for a non-empty set of observations of one exercise the returned
\* statistics satisfy max_weight >= avg_weight >= min_weight, and
\* latest_weight is the weight of an observation with the greatest
\* created_at.
C9_StatsOrdering ==
  (Returned /\ Observed # {})
    => /\ DecLeq(stats.result.avg_weight, stats.result.max_weight)
       /\ DecLeq(stats.result.min_weight, stats.result.avg_weight)
       /\ \A i \in Observed :
            /\ DecLeq(Dec(progress_history[i].weight), stats.result.max_weight)
            /\ DecLeq(stats.result.min_weight, Dec(progress_history[i].weight))
       /\ \E i \in Observed :
            /\ \A j \in Observed :
                 progress_history[j].created_at <= progress_history[i].created_at
            /\ stats.result.latest_weight = Dec(progress_history[i].weight)

\* C9 witness: statistics over three observations whose latest weight is
\* neither the maximum nor the minimum.
C9_Witness ==
  /\ Returned
  /\ stats.result.total_sessions = 3
  /\ stats.result.latest_weight # stats.result.max_weight
  /\ stats.result.latest_weight # stats.result.min_weight

\* C10: the progression figure is 0 for exactly one observation and
\* (latest - min) / min * 100 for more than one (the call fails with a
\* division by zero when that minimum is 0); observations 60, 65, 70 in time
\* order give (70 - 60) / 60 * 100.
C10_Progression ==
  stats # Null =>
    LET n == Cardinality(Observed)
        lowest == CHOOSE w \in {progress_history[i].weight : i \in Observed} :
                    \A i \in Observed : w <= progress_history[i].weight
    IN /\ n = 1 => Returned /\ stats.result.weight_progression = Dec(0)
       /\ (n > 1 /\ lowest = 0) => ~Returned
       /\ (n > 1 /\ lowest # 0)
            => /\ Returned
               /\ stats.result.weight_progression.num * lowest * stats.result.latest_weight.den
                    = (stats.result.latest_weight.num - lowest * stats.result.latest_weight.den)
                        * 100 * stats.result.weight_progression.den
       /\ (n = 3 /\ \E i, j, k \in Observed :
             /\ progress_history[i].created_at < progress_history[j].created_at
             /\ progress_history[j].created_at < progress_history[k].created_at
             /\ progress_history[i].weight = 60
             /\ progress_history[j].weight = 65
             /\ progress_history[k].weight = 70)
            => /\ Returned
               /\ stats.result.weight_progression.num * 60
                    = 1000 * stats.result.weight_progression.den

\* C10 witness: the statistics of the observations 60, 65, 70.
C10_Witness ==
  /\ Returned
  /\ stats.result.total_sessions = 3
  /\ stats.result.min_weight = Dec(60)
  /\ stats.result.latest_weight = Dec(70)
  /\ stats.result.max_weight = Dec(70)
  /\ \E i \in Observed : progress_history[i].weight = 65

\* the fitted line of a chart that has computed it
Line == trend.line.v

\* value[i] = a + b * i for the a and b the first two values fix
Linear(data) ==
  \A k \in 1..Len(data) :
    data[k] = Number(DecAdd(data[1], DecMul(Dec(k - 1), DecSub(data[2], data[1]))))

\* C11: for a sequence of length 0 or 1 the trend-line fitter returns its
\* input unchanged.
C11_ShortInputUnchanged ==
  (trend # Null /\ trend.line # Null /\ Len(trend.data) < 2) => Line = trend.data

\* C11 witness: the trend line of a single weight has been computed.
C11_Witness ==
  /\ trend # Null
  /\ trend.line # Null
  /\ Len(trend.data) = 1

InRange(w) == DecLeq(Dec(0), w) /\ DecLeq(w, Dec(1000))

\* C13: the weight the weight input holds, and every weight it passes to
\* recordWeight, is within 0..1000 inclusive, whatever sequence of typed
\* edits, increments and decrements came before.
C13_WeightWithinRange ==
  weightInput # Null =>
    /\ InRange(weightInput.weight)
    /\ weightInput.call # Null => InRange(weightInput.call.v)

\* C13 witness: after two edits a weight of 1000, the maximum, is being
\* recorded.
C13_Witness ==
  /\ weightInput # Null
  /\ weightInput.call = Some(Dec(1000))
  /\ weightInput.edits >= 2

ReferentialIntegrity ==
  /\ \A i \in DOMAIN training_days : training_days[i].user_id \in Ids(profiles)
  /\ \A i \in DOMAIN exercises : exercises[i].day_id \in Ids(training_days)
  /\ \A i \in DOMAIN progress_history : progress_history[i].exercise_id \in Ids(exercises)
  /\ \A i \in DOMAIN workout_sessions : workout_sessions[i].day_id \in Ids(training_days)
  /\ \A i \in DOMAIN session_exercises :
       /\ session_exercises[i].session_id \in Ids(workout_sessions)
       /\ session_exercises[i].exercise_id \in Ids(exercises)

\* the ids of the rows that reference parent id through fk
ChildIds(rows, fk, id) == {rows[i].id : i \in {j \in DOMAIN rows : rows[j][fk] = id}}

\* C14: after any sequence of inserts and deletes on profiles, training days
\* and exercises, every exercise references an existing training day and
\* every training day an existing profile (and so do the rows below them);
\* deleting a training day removes exactly its exercises, their
\* progress-history rows, its workout sessions and their session exercises.
C14_ReferencesAndCascade ==
  [][/\ ReferentialIntegrity'
     /\ last'.op = "training_days_delete" =>
          LET gone == ChildIds(exercises, "day_id", last'.id)
              over == ChildIds(workout_sessions, "day_id", last'.id)
          IN /\ exercises' = SelectSeq(exercises, LAMBDA r : r.day_id # last'.id)
             /\ progress_history' =
                  SelectSeq(progress_history, LAMBDA r : r.exercise_id \notin gone)
             /\ workout_sessions' =
                  SelectSeq(workout_sessions, LAMBDA r : r.day_id # last'.id)
             /\ session_exercises' =
                  SelectSeq(session_exercises,
                            LAMBDA r : r.session_id \notin over /\ r.exercise_id \notin gone)]_vars

\* C14 witness: a training day has been deleted together with an exercise, a
\* progress-history row, a workout session and a session exercise of its own.
C14_Witness ==
  /\ last.op = "training_days_delete"
  /\ last.removed.training_days = 1
  /\ last.removed.exercises >= 1
  /\ last.removed.progress_history >= 1
  /\ last.removed.workout_sessions >= 1
  /\ last.removed.session_exercises >= 1

\* C15: completeWorkoutSession on an active session issues the update that
\* completes the remote session; when the cache holds no entry with a
\* weight above zero the call ends without a session_exercises insert being
\* issued or served.
C15_NoWeightsNoInsert ==
  [][/\ (last'.op = "completeWorkoutSession" /\ currentSession # Null) =>
          /\ inflight'[last'.slot].req.verb = "update"
          /\ inflight'[last'.slot].req.table = "workout_sessions"
          /\ inflight'[last'.slot].req.id = currentSession.id
          /\ inflight'[last'.slot].req.completed_at # Null
     /\ (last'.op = "completeWorkoutSession_resume"
           /\ WeightedKeys(sessionExercises) = {}) =>
          /\ inflight'[last'.slot] = Idle
          /\ session_exercises' = session_exercises
     /\ last'.op = "insert_session_exercises" =>
          WeightedKeys(sessionExercises) # {}]_vars

\* C15 witness: the completion update of a session has been served while
\* the cache holds one entry, of weight zero.
C15_Witness ==
  /\ last.op = "update_workout_sessions"
  /\ inflight[last.slot].res.outcome = "ok"
  /\ Len(sessionExercises.keys) = 1
  /\ WeightedKeys(sessionExercises) = {}
  /\ SessionRow(currentSession.id).completed_at # Null

\* C16: when no observation of the exercise lies inside the date range the
\* statistics call returns count 0, progression 0 and null max, min, mean
\* and latest, and raises no division error.
C16_EmptyStats ==
  (stats # Null /\ Observed = {}) =>
    /\ Returned
    /\ stats.result.total_sessions = 0
    /\ stats.result.weight_progression = Dec(0)
    /\ stats.result.max_weight = Null
    /\ stats.result.min_weight = Null
    /\ stats.result.avg_weight = Null
    /\ stats.result.latest_weight = Null

\* C16 witness: the exercise has observations, one of them of weight 0, but
\* none inside the date range asked for.
C16_Witness ==
  /\ stats # Null
  /\ Observed = {}
  /\ stats.p_start_date # Null
  /\ \A i \in DOMAIN progress_history : progress_history[i].exercise_id = stats.p_exercise_id
  /\ \E i \in DOMAIN progress_history : progress_history[i].weight = 0
  /\ Len(progress_history) = 2

RECURSIVE SumOf(_)
SumOf(S) == IF S = {} THEN 0
            ELSE LET i == CHOOSE x \in S : TRUE
                 IN progress_history[i].weight + SumOf(S \ {i})

\* C19: the statistics are those of exactly the observations of the exercise
\* with start <= created_at <= end, both bounds inclusive and an absent
\* bound not restricting: count, max, min, mean, latest and the progression
\* are all taken over that filtered set.
C19_DateFilter ==
  Returned =>
    /\ stats.result.total_sessions = Cardinality(Observed)
    /\ Observed # {} =>
         /\ \E i \in Observed : stats.result.max_weight = Dec(progress_history[i].weight)
         /\ \E i \in Observed : stats.result.min_weight = Dec(progress_history[i].weight)
         /\ \A i \in Observed :
              /\ DecLeq(Dec(progress_history[i].weight), stats.result.max_weight)
              /\ DecLeq(stats.result.min_weight, Dec(progress_history[i].weight))
         /\ stats.result.avg_weight.num * Cardinality(Observed)
              = SumOf(Observed) * stats.result.avg_weight.den
         /\ \E i \in Observed :
              /\ \A j \in Observed :
                   progress_history[j].created_at <= progress_history[i].created_at
              /\ stats.result.latest_weight = Dec(progress_history[i].weight)
         /\ Cardinality(Observed) > 1 =>
              stats.result.weight_progression.num * stats.result.min_weight.num
                  * stats.result.latest_weight.den * stats.result.min_weight.den
                = (stats.result.latest_weight.num * stats.result.min_weight.den
                     - stats.result.min_weight.num * stats.result.latest_weight.den)
                  * 100 * stats.result.min_weight.den * stats.result.weight_progression.den

\* C19 witness: with start = end = 2, of three observations of the exercise
\* made at 1, 2 and 3 only the one made at 2 is counted.
C19_Witness ==
  /\ Returned
  /\ stats.p_start_date = Some(2)
  /\ stats.p_end_date = Some(2)
  /\ Len(progress_history) = 3
  /\ \A i \in DOMAIN progress_history :
       /\ progress_history[i].exercise_id = stats.p_exercise_id
       /\ progress_history[i].created_at = i
  /\ stats.result.total_sessions = 1
  /\ stats.result.latest_weight = Dec(progress_history[2].weight)

\* C17: across any sequence of session-store operations the progress-history
\* rows only grow: every step keeps the rows there are, unchanged and in
\* place, and only the insert recordWeight issues adds one.
C17_ProgressHistoryAppendOnly ==
  [][\/ progress_history' = progress_history
     \/ /\ last'.op = "insert_progress_history"
        /\ Len(progress_history') = Len(progress_history) + 1
        /\ SubSeq(progress_history', 1, Len(progress_history)) = progress_history]_vars

\* C17 witness: a session in which two weights were recorded has been
\* completed, and both observations are in the table.
C17_Witness ==
  /\ last.op = "completeWorkoutSession_finish"
  /\ currentSession = Null
  /\ Len(progress_history) = 2
  /\ progress_history[1].created_at < progress_history[2].created_at


\* C18: when at least one exercise is selected and every per-exercise
\* statistics query succeeds, report generation triggers the download of
\* reporte-progreso-<start>-<end>.pdf and raises no error alert; in every
\* outcome isGenerating ends false.
C18_ReportDownloaded ==
  [][last'.op = "generateReport_resume"
       => /\ ~report'.isGenerating
          /\ (Succeeded(report.calls)
                => /\ last'.alert = ""
                   /\ last'.download = Some(<<"reporte-progreso-",
                                              report.config.start_date.v, "-",
                                              report.config.end_date.v, ".pdf">>))]_vars

\* the flag part of C18 alone
ReportFlagEndsFalse ==
  [][last'.op = "generateReport_resume" => ~report'.isGenerating]_vars


\* everything but last and the endpoint's response
BesidesResponse == <<remote, store, storage, inflight, issued, stats, catalog,
                     trend, weightInput, report, dashboard, pdf, tabs>>

\* C20: a failed validation at an input boundary (weight <= 0 in the weight
\* input, no exercise selected for a report, a blank training-day or exercise
\* name or no user on the dashboard, no exerciseId on the endpoint) issues no
\* remote call and leaves local and remote state as they were; the endpoint
\* answers 400.
C20_RejectedBeforeAnyCall ==
  [][/\ (last'.op = "handleRecordWeight" /\ DecLeq(weightInput.weight, Dec(0)))
          => UNCHANGED <<BesidesResponse, response>>
     /\ (last'.op = "generateReport" /\ Len(report.selectedExercises) = 0)
          => UNCHANGED <<BesidesResponse, response>>
     /\ (last'.op = "addTrainingDay"
           /\ (trim(dashboard.newDayName) = "" \/ dashboard.user = Null))
          => UNCHANGED <<BesidesResponse, response>>
     /\ (last'.op = "addExercise" /\ trim(dashboard.newExercise.name) = "")
          => UNCHANGED <<BesidesResponse, response>>
     /\ (last'.op = "updateTrainingDay" /\ trim(dashboard.editDayName) = "")
          => UNCHANGED <<BesidesResponse, response>>
     /\ (last'.op = "updateExercise" /\ trim(dashboard.editExerciseData.name) = "")
          => UNCHANGED <<BesidesResponse, response>>
     /\ (last'.op = "GET" /\ last'.exerciseId \in {Null, Some("")})
          => /\ UNCHANGED BesidesResponse
             /\ response'.status = 400
             /\ response'.queries = 0]_vars

\* a name of spaces only was typed for a training day after one day had been
\* added, and addTrainingDay has just turned it down
C20_Witness ==
  /\ dashboard # Null
  /\ last.op = "addTrainingDay"
  /\ last.alert # ""
  /\ dashboard.newDayName = "  "
  /\ dashboard.user # Null
  /\ Len(dashboard.trainingDays) = 1
  /\ Len(training_days) = 1
  /\ dashboard.call = Null

\* the other boundaries turn an input down as well
RejectedWeight ==
  weightInput # Null /\ last.op = "handleRecordWeight" /\ weightInput.call = Null
    /\ weightInput.edits > 0
RejectedReport ==
  report # Null /\ last.op = "generateReport" /\ last.alert # "" /\ issued > 0
RejectedExercise ==
  /\ dashboard # Null
  /\ last.op = "addExercise"
  /\ dashboard.newExercise.name = "  "
  /\ dashboard.call = Null
RejectedRequest ==
  response # Null /\ last.op = "GET" /\ response.status = 400


\* the six mutations of the dashboard, and the step that ends each
Mutations == {"addTrainingDay", "updateTrainingDay", "deleteTrainingDay",
              "addExercise", "updateExercise", "deleteExercise"}
MutationEnds == {"addTrainingDay_resume", "updateTrainingDay_resume",
                 "deleteTrainingDay_resume", "addExercise_resume",
                 "updateExercise_resume", "deleteExercise_resume"}

\* C21: when the remote call of a dashboard mutation fails, trainingDays is
\* what it was before the call; trainingDays changes only in the step that
\* follows a successful remote call.
C21_FailedMutationKeepsList ==
  [][/\ (last'.op \in MutationEnds /\ dashboard.call.state # "ok")
          => /\ dashboard'.trainingDays = dashboard.trainingDays
             /\ dashboard'.trainingDays = dashboard.call.trainingDays
     /\ (dashboard # Null /\ dashboard'.trainingDays # dashboard.trainingDays)
          => /\ last'.op \in MutationEnds
             /\ dashboard.call.op \in Mutations
             /\ dashboard.call.state = "ok"]_vars

\* the delete of the only training day ever added has failed
C21_Witness ==
  /\ dashboard # Null
  /\ last.op = "deleteTrainingDay_resume"
  /\ generated = 1
  /\ Len(training_days) = 1
  /\ Len(dashboard.trainingDays) = 1
  /\ dashboard.call = Null

\* each of the other mutations has failed as well
FailedUpdateDay ==
  /\ dashboard # Null
  /\ last.op = "updateTrainingDay_resume"
  /\ dashboard.editingDay # Null
FailedUpdateExercise ==
  /\ dashboard # Null
  /\ last.op = "updateExercise_resume"
  /\ dashboard.editingExercise # Null
FailedDeleteExercise ==
  /\ dashboard # Null
  /\ last.op = "deleteExercise_resume"
  /\ Len(exercises) = 1
  /\ generated = 2
SucceededUpdateDay ==
  /\ dashboard # Null
  /\ last.op = "updateTrainingDay_resume"
  /\ \E i \in DOMAIN dashboard.trainingDays : dashboard.trainingDays[i].day_name = "Pull"
SucceededUpdateExercise ==
  /\ dashboard # Null
  /\ last.op = "updateExercise_resume"
  /\ \E i \in DOMAIN exercises : exercises[i].name = "Pull"
SucceededDeleteExercise ==
  /\ dashboard # Null
  /\ last.op = "deleteExercise_resume"
  /\ Len(exercises) = 0
  /\ generated = 2


\* the captures that failed, out of those made so far
FailedCaptures(p) == {i \in DOMAIN p.captures : p.captures[i] # "ok"}

\* C22: a chart whose capture fails is skipped and the failure is not fatal:
\* the loop goes on to the next chart, and the report is returned with a
\* footer on every page and with the charts whose capture succeeded.
C22_FailedChartSkipped ==
  /\ [][(last'.op = "html2canvas" /\ last'.outcome # "ok")
          => /\ pdf'.phase = "charts"
             /\ pdf'.next = pdf.next + 1
             /\ pdf'.images = pdf.images]_vars
  /\ [](pdf.phase = "returned" /\ FailedCaptures(pdf) # {}
          => /\ Len(pdf.captures) = pdf.chartElements.v
             /\ pdf.footers = 1..pdf.pages
             /\ {pdf.images[i].element : i \in DOMAIN pdf.images}
                  = DOMAIN pdf.captures \ FailedCaptures(pdf))
  /\ ((pdf.phase = "charts") ~> (pdf.phase = "returned"))

\* the first of three captures failed, the other two charts are on a second
\* page, and the report has been returned
C22_Witness ==
  /\ pdf # Null
  /\ pdf.phase = "returned"
  /\ pdf.captures = <<"throw", "ok", "ok">>
  /\ Len(pdf.images) = 2
  /\ pdf.pages = 2
  /\ pdf.footers = {1, 2}


\* the rows of profiles with the id u
ProfilesOf(u) == {i \in DOMAIN profiles : profiles[i].id = u}

\* C23: once the user check of a tab has let an authenticated user in,
\* exactly one Profile with the user's id exists; no insert is issued when the
\* select found a profile; no user ever has two profiles; and, whatever the
\* tabs do at the same time, a user who has a profile is not sent back to the
\* login page by a user check in which no call failed on its own.
C23_ProfileOnFirstSignIn ==
  /\ [](\A t \in Tabs :
          tabs[t].phase = "dashboard"
            => Cardinality(ProfilesOf(tabs[t].user.v)) = 1)
  /\ [](\A i, j \in DOMAIN profiles : profiles[i].id = profiles[j].id => i = j)
  /\ [][\A t \in Tabs :
          (tabs[t].phase = "select replied" /\ tabs[t].res.outcome = "ok")
            => tabs'[t].inserts = tabs[t].inserts]_vars
  /\ [][\A t \in Tabs :
          (last'.op = "ensureUserProfile_inserted" /\ last'.tab = t
             /\ tabs[t].authUser.v \in Ids(profiles)
             /\ tabs[t].res.code # "other" /\ tabs[t].res.outcome # "throw")
            => tabs'[t].phase = "dashboard"]_vars

\* the parts of C23 that hold
ProfileKeptSingle ==
  /\ \A t \in Tabs :
       tabs[t].phase = "dashboard" => Cardinality(ProfilesOf(tabs[t].user.v)) = 1
  /\ \A i, j \in DOMAIN profiles : profiles[i].id = profiles[j].id => i = j


\* the rows the bulk insert has added to session_exercises in this step
AddedSessionExercises ==
  SubSeq(session_exercises', Len(session_exercises) + 1, Len(session_exercises'))

\* C24: when a session is finalized, the bulk insert writes one
\* SessionExercise row for each exercise that has a recorded weight in the
\* session.
C24_OneRowPerExercise ==
  [][(last'.op = "insert_session_exercises" /\ inflight'[last'.slot].res.outcome = "ok")
       => \A e \in {sessionExercises.val[k].exercise_id :
                      k \in WeightedKeys(sessionExercises)} :
            Cardinality({i \in DOMAIN AddedSessionExercises :
                           AddedSessionExercises[i].exercise_id = e}) = 1]_vars

\* C26: every cached entry carries the id of currentSession, also after
\* startWorkoutSession or loadCurrentSession for another training day.
C26_EntriesBelongToCurrentSession ==
  currentSession # Null
    => \A k \in DOMAIN sessionExercises.val :
         sessionExercises.val[k].session_id = currentSession.id

\* C27: while no call is suspended, a non-null currentSession is a session of
\* the remote store whose completed_at is unset.
C27_CurrentSessionOpenRemotely ==
  (NoneInFlight /\ currentSession # Null)
    => \E i \in DOMAIN workout_sessions :
         /\ workout_sessions[i].id = currentSession.id
         /\ workout_sessions[i].completed_at = Null


\* C28: recordWeight and completeWorkoutSession invoked while currentSession
\* is null issue no remote call and leave currentSession, sessionExercises,
\* error and isLoading (and the remote store) as they are.
C28_NoSessionNoEffect ==
  [][(last'.op \in {"recordWeight", "completeWorkoutSession"} /\ currentSession = Null)
       => /\ UNCHANGED <<store, remote>>
          /\ inflight' = inflight
          /\ issued' = issued
          /\ storage' = storage]_vars

\* C28 witness: after a session was started and completed, recordWeight or
\* completeWorkoutSession has been invoked with no current session.
C28_Witness ==
  /\ last.op \in {"recordWeight", "completeWorkoutSession"}
  /\ last.slot = 0
  /\ currentSession = Null
  /\ Len(workout_sessions) > 0
  /\ issued > 0


\* C25: whenever currentSession is null the sessionExercises cache is empty,
\* also when a suspended recordWeight resumes after completeWorkoutSession or
\* clearSession.
C25_NoSessionNoEntries ==
  currentSession = Null => Len(sessionExercises.keys) = 0

\* the key of the call that has just taken a step
CallKey == Key(Call.exerciseId, Call.setIndex)

\* C29: recordWeight calls in flight together lose no increment: every call
\* whose write succeeded appends exactly one ProgressHistory row, and on its
\* return adds exactly one to the sets_completed its entry has at that moment,
\* whatever the other calls have done to the entry since it was issued.
C29_NoLostIncrement ==
  [][/\ (last'.op = "insert_progress_history" /\ inflight'[last'.slot].res.outcome = "ok")
          => /\ Len(progress_history') = Len(progress_history) + 1
             /\ SubSeq(progress_history', 1, Len(progress_history)) = progress_history
     /\ (last'.op = "recordWeight_resume" /\ Call.res.outcome = "ok")
          => /\ SetsCompleted(sessionExercises', CallKey)
                  = SetsCompleted(sessionExercises, CallKey) + 1
             /\ \A k \in DOMAIN sessionExercises.val :
                  k # CallKey => /\ k \in DOMAIN sessionExercises'.val
                                 /\ sessionExercises'.val[k] = sessionExercises.val[k]]_vars

\* C29 witness: two recordWeight calls for ("e1", 0) were suspended together
\* (the second took slot 2 while the first held slot 1), both writes
\* succeeded, and the second has returned: two rows, sets_completed 2.
C29_Witness ==
  /\ last.op = "recordWeight_resume"
  /\ last.slot = 2
  /\ NoneInFlight
  /\ issued = 3
  /\ Len(workout_sessions) = 1
  /\ Len(progress_history) = 2
  /\ MapHas(sessionExercises, Key("e1", 0))
  /\ Len(sessionExercises.keys) = 1
  /\ sessionExercises.val[Key("e1", 0)].sets_completed = 2


\* C30: the training days of a profile have pairwise distinct day_order
\* values and the exercises of a day pairwise distinct order_index values;
\* a day or exercise that is added gets a value above every existing one.
C30_DistinctOrder ==
  /\ [](\A i, j \in DOMAIN training_days :
          (training_days[i].user_id = training_days[j].user_id
             /\ training_days[i].day_order = training_days[j].day_order) => i = j)
  /\ [](\A i, j \in DOMAIN exercises :
          (exercises[i].day_id = exercises[j].day_id
             /\ exercises[i].order_index = exercises[j].order_index) => i = j)
  /\ [][(last'.op = "dashboard_insert" /\ Len(training_days') > Len(training_days))
          => \A i \in DOMAIN training_days :
               training_days[i].user_id = dashboard.call.row.user_id
                 => training_days[i].day_order < dashboard.call.row.day_order]_vars
  /\ [][(last'.op = "dashboard_insert" /\ Len(exercises') > Len(exercises))
          => \A i \in DOMAIN exercises :
               exercises[i].day_id = dashboard.call.row.day_id
                 => exercises[i].order_index < dashboard.call.row.order_index]_vars

====
